---- MODULE Spec2Model ----
(***************************************************************************)
(* xipfs: an execute-in-place file system on NOR flash.                    *)
(*                                                                         *)
(* The flash is modelled cell by cell.  A cell stands for one field of the *)
(* on-flash record header (next, path, reserved, one size slot, exec) or   *)
(* for one payload byte; addresses, offsets, sizes and the reserved field  *)
(* are counted in cells.  A flash page holds one record header followed by *)
(* PagePayload payload cells, as a 4096-byte page holds the 420-byte       *)
(* header followed by payload.                                             *)
(***************************************************************************)
EXTENDS Integers, Sequences, FiniteSets, TLC

(***************************************************************************)
(* Bounds of the model                                                     *)
(***************************************************************************)
XIPFS_FILESIZE_SLOT_MAX == 3
XIPFS_PATH_MAX == 6
XIPFS_MAX_OPEN_DESC == 2
PagePayload == 1
MountPages == 3
MaxOps == 4
MaxFails == 1

(***************************************************************************)
(* Layout of xipfs_file_t and of the flash                                 *)
(***************************************************************************)
off_next == 0
off_path == 1
off_reserved == 2
off_size == 3
off_exec == off_size + XIPFS_FILESIZE_SLOT_MAX
off_buf == off_exec + 1
sizeof_xipfs_file_t == off_buf
XIPFS_NVM_PAGE_SIZE == sizeof_xipfs_file_t + PagePayload
XIPFS_NVM_BASE == 0
NULL == 0
\* the erased flash word 0xFFFFFFFF, read as a signed value
XIPFS_FLASH_ERASE_STATE == -1
\* first flash page of the mount point (xipfs_mount_t.page_addr)
MountFirstPage == 1
XIPFS_NVM_NUMOF == MountFirstPage + MountPages
\* size of the address space, for unsigned pointer arithmetic
AddrSpace == 16 * XIPFS_NVM_NUMOF * XIPFS_NVM_PAGE_SIZE

mp_page_addr == XIPFS_NVM_BASE + MountFirstPage * XIPFS_NVM_PAGE_SIZE
mp_page_num == MountPages
mp_end == mp_page_addr + mp_page_num * XIPFS_NVM_PAGE_SIZE
MountCells == mp_page_addr .. (mp_end - 1)

xipfs_nvm_addr(page) == XIPFS_NVM_BASE + page * XIPFS_NVM_PAGE_SIZE
xipfs_nvm_page(addr) == (addr - XIPFS_NVM_BASE) \div XIPFS_NVM_PAGE_SIZE

Min(a, b) == IF a < b THEN a ELSE b

(***************************************************************************)
(* Paths.  In RAM a path is a sequence of characters; on flash the path    *)
(* field is one cell holding the NUL-terminated string as a number, one    *)
(* digit per character, NUL being digit 0.                                 *)
(***************************************************************************)
Alphabet == <<"/", "a", "b">>
PathBase == Len(Alphabet) + 1
CharCode(c) == CHOOSE k \in 1..Len(Alphabet) : Alphabet[k] = c

RECURSIVE PathEnc(_)
PathEnc(s) == IF s = <<>> THEN 0
              ELSE CharCode(Head(s)) + PathBase * PathEnc(Tail(s))

RECURSIVE PathDecR(_, _)
PathDecR(v, n) == IF n = 0 \/ v % PathBase = 0 THEN <<>>
                  ELSE <<Alphabet[v % PathBase]>> \o PathDecR(v \div PathBase, n - 1)

PathCells == 0 .. (PathBase ^ XIPFS_PATH_MAX - 1)
PathDecTable == [v \in PathCells |-> PathDecR(v, XIPFS_PATH_MAX)]
\* the string read at the path field; an erased or overwritten field reads
\* as bytes outside the path character set
PathDec(v) == IF v \in PathCells THEN PathDecTable[v] ELSE <<"?">>

(***************************************************************************)
(* The machine state threaded through the C functions: the flash, the page *)
(* buffer, xipfs_errno, the value returned by the last call and the bytes  *)
(* it copied out.                                                          *)
(***************************************************************************)
XIPFS_BUFFER_OK == "XIPFS_BUFFER_OK"
XIPFS_BUFFER_KO == "XIPFS_BUFFER_KO"

ZeroPage == [i \in 1..XIPFS_NVM_PAGE_SIZE |-> 0]
xipfs_buf_init == [state |-> XIPFS_BUFFER_KO, buf |-> ZeroPage,
                   page_num |-> 0, page_addr |-> NULL]

\* the value of a call given to the code that follows it
Bind(v, K(_)) == K(v)

Ret(m, v) == [m EXCEPT !.ret = v]
Err(m, e, v) == [m EXCEPT !.errno = e, !.ret = v]

\* the calls of one driver operation, in the order in which they are made
Note(m, ev, a, b) == [m EXCEPT !.log = Append(@, [ev |-> ev, a |-> a, b |-> b])]

(***************************************************************************)
(* flash.c                                                                 *)
(***************************************************************************)
xipfs_flash_end_addr == XIPFS_NVM_BASE + XIPFS_NVM_NUMOF * XIPFS_NVM_PAGE_SIZE
xipfs_flash_in(addr) == addr < xipfs_flash_end_addr
xipfs_flash_page_aligned(addr) == addr % XIPFS_NVM_PAGE_SIZE = 0
xipfs_flash_overflow(addr, n) == ~xipfs_flash_in(addr + n)
xipfs_flash_page_overflow(addr, n) ==
    ~((addr % XIPFS_NVM_PAGE_SIZE) + n <= XIPFS_NVM_PAGE_SIZE)

PageCells(page) == xipfs_nvm_addr(page) .. (xipfs_nvm_addr(page) + XIPFS_NVM_PAGE_SIZE - 1)

\* a read of the flash; outside the mount point lies the firmware, which
\* is not erased
Peek(nvm, a) == IF a \in DOMAIN nvm THEN nvm[a] ELSE 0

RECURSIVE BitAnd(_, _)
BitAnd(a, b) == IF a = 0 \/ b = 0 THEN 0
                ELSE (a % 2) * (b % 2) + 2 * BitAnd(a \div 2, b \div 2)

\* xipfs_nvm_write on NOR flash: programming can only clear bits
xipfs_nvm_write(old, new) ==
    IF old = XIPFS_FLASH_ERASE_STATE THEN new
    ELSE IF new = XIPFS_FLASH_ERASE_STATE THEN old
    ELSE BitAnd(old, new)

\* xipfs_nvm_erase: every cell of the page returns to the erased state
xipfs_nvm_erase(nvm, page) ==
    [a \in DOMAIN nvm |-> IF a \in PageCells(page) THEN XIPFS_FLASH_ERASE_STATE ELSE nvm[a]]

xipfs_flash_is_erased_page(nvm, page) ==
    \A a \in PageCells(page) : Peek(nvm, a) = XIPFS_FLASH_ERASE_STATE

\* a flash step of the call fails when the fault countdown of the machine is
\* at zero: the hardware then leaves the cells as they were
Faulty(m) == m.fuel = 0

Tick(m) == [m EXCEPT !.fuel = IF @ >= 0 THEN @ - 1 ELSE @]

xipfs_flash_erase_page(m, page) ==
    IF xipfs_flash_is_erased_page(m.nvm, page) THEN Ret(m, 0)
    ELSE LET n1 == IF Faulty(m) THEN m.nvm ELSE xipfs_nvm_erase(m.nvm, page)
         IN  IF xipfs_flash_is_erased_page(n1, page)
             THEN [Tick(m) EXCEPT !.nvm = n1, !.ret = 0]
             ELSE [Tick(m) EXCEPT !.nvm = n1, !.errno = "XIPFS_ENVMC", !.ret = -1]

RECURSIVE xipfs_flash_write_unaligned(_, _, _)
xipfs_flash_write_unaligned(m, dest, src) ==
    IF src = <<>> THEN Ret(m, 0)
    ELSE LET w  == IF Faulty(m) THEN Peek(m.nvm, dest)
                   ELSE xipfs_nvm_write(Peek(m.nvm, dest), Head(src))
             n1 == IF dest \in DOMAIN m.nvm THEN [m.nvm EXCEPT ![dest] = w] ELSE m.nvm
         IN  IF Peek(n1, dest) # Head(src)
             THEN [Tick(m) EXCEPT !.nvm = n1, !.ret = -1]
             ELSE xipfs_flash_write_unaligned([Tick(m) EXCEPT !.nvm = n1], dest + 1,
                                              Tail(src))

\* flashpage_write_and_verify: programs a whole page from RAM and compares
flashpage_write_and_verify(m, page, data) ==
    LET n1 == [a \in DOMAIN m.nvm |->
                 IF a \in PageCells(page) /\ ~Faulty(m)
                 THEN xipfs_nvm_write(m.nvm[a], data[a - xipfs_nvm_addr(page) + 1])
                 ELSE m.nvm[a]]
        ok == \A a \in PageCells(page) :
                 Peek(n1, a) = data[a - xipfs_nvm_addr(page) + 1]
    IN  [Tick(m) EXCEPT !.nvm = n1, !.ret = IF ok THEN 0 ELSE -1]

(***************************************************************************)
(* buffer.c                                                                *)
(***************************************************************************)
xipfs_buffer_page_changed(m, num) == m.buf.page_num # num

xipfs_buffer_need_flush(m) ==
    IF m.buf.state = XIPFS_BUFFER_KO THEN FALSE
    ELSE \E i \in 0..(XIPFS_NVM_PAGE_SIZE - 1) :
            m.buf.buf[i + 1] # Peek(m.nvm, m.buf.page_addr + i)

xipfs_buffer_flush(m) ==
    Bind(IF ~xipfs_buffer_need_flush(m) THEN Ret(m, 0)
         ELSE Bind(xipfs_flash_erase_page(m, m.buf.page_num), LAMBDA m1 :
              IF m1.ret < 0 THEN Ret(m1, -1)
              ELSE Bind(flashpage_write_and_verify(m1, m.buf.page_num, m.buf.buf),
                   LAMBDA m2 :
                   IF m2.ret # 0 THEN Ret(m2, -1)
                   ELSE [m2 EXCEPT !.buf = xipfs_buf_init, !.ret = 0])),
         LAMBDA r : Note(r, "xipfs_buffer_flush", r.ret, 0))

xipfs_buffer_load(m, num, addr) ==
    [m EXCEPT !.buf = [state |-> XIPFS_BUFFER_OK,
                       buf |-> [i \in 1..XIPFS_NVM_PAGE_SIZE |-> Peek(m.nvm, addr + i - 1)],
                       page_num |-> num, page_addr |-> addr]]

\* a variant that loads the page of ptr without flushing the loaded one
BufferSeek_noflush(m, ptr) ==
    LET num  == xipfs_nvm_page(ptr)
        addr == xipfs_nvm_addr(num)
    IN  IF m.buf.state = XIPFS_BUFFER_KO THEN Ret(xipfs_buffer_load(m, num, addr), 0)
        ELSE IF ~xipfs_buffer_page_changed(m, num) THEN Ret(m, 0)
        ELSE Ret(xipfs_buffer_load(m, num, addr), 0)

\* the page buffer made to hold the page of ptr (common to read and write)
BufferSeek(m, ptr) ==
    LET num  == xipfs_nvm_page(ptr)
        addr == xipfs_nvm_addr(num)
    IN  IF m.buf.state = XIPFS_BUFFER_KO THEN Ret(xipfs_buffer_load(m, num, addr), 0)
        ELSE IF ~xipfs_buffer_page_changed(m, num) THEN Ret(m, 0)
        ELSE Bind(xipfs_buffer_flush(m), LAMBDA m1 :
             IF m1.ret < 0 THEN Ret(m1, -1)
             ELSE Ret(xipfs_buffer_load(m1, num, addr), 0))

RECURSIVE xipfs_buffer_read(_, _, _)
xipfs_buffer_read(m, src, len) ==
    IF len = 0 THEN [m EXCEPT !.ret = 0, !.data = <<>>]
    ELSE Bind(BufferSeek(m, src), LAMBDA m1 :
         IF m1.ret < 0 THEN [m1 EXCEPT !.data = <<>>]
         ELSE Bind(xipfs_buffer_read(m1, src + 1, len - 1), LAMBDA m2 :
              [m2 EXCEPT !.data = <<m1.buf.buf[(src % XIPFS_NVM_PAGE_SIZE) + 1]>> \o m2.data]))

xipfs_buffer_read_8(m, src) == xipfs_buffer_read(m, src, 1)
xipfs_buffer_read_32(m, src) == xipfs_buffer_read(m, src, 1)

RECURSIVE xipfs_buffer_write(_, _, _)
xipfs_buffer_write(m, dest, src) ==
    IF src = <<>> THEN Ret(m, 0)
    ELSE Bind(BufferSeek(m, dest), LAMBDA m1 :
         IF m1.ret < 0 THEN m1
         ELSE xipfs_buffer_write(
                [m1 EXCEPT !.buf.buf[(dest % XIPFS_NVM_PAGE_SIZE) + 1] = Head(src)],
                dest + 1, Tail(src)))

xipfs_buffer_write_8(m, dest, byte) == xipfs_buffer_write(m, dest, <<byte>>)
xipfs_buffer_write_32(m, dest, word) == xipfs_buffer_write(m, dest, <<word>>)

(***************************************************************************)
(* file.c                                                                  *)
(***************************************************************************)
Field(m, filp, off) == Peek(m.nvm, filp + off)

xipfs_file_path_charset_check(c) == \E k \in 1..Len(Alphabet) : Alphabet[k] = c

xipfs_file_path_check(m, path) ==
    IF path = <<>> THEN Err(m, "XIPFS_EEMPTY", -1)
    ELSE IF \E i \in 1..Min(Len(path), XIPFS_PATH_MAX) :
                ~xipfs_file_path_charset_check(path[i])
    THEN Err(m, "XIPFS_EINVAL", -1)
    ELSE IF Len(path) > XIPFS_PATH_MAX THEN Err(m, "XIPFS_ENULTER", -1)
    ELSE Ret(m, 0)

xipfs_file_filp_check(m, filp) ==
    LET next == Field(m, filp, off_next)
    IN  IF filp = NULL THEN Err(m, "XIPFS_ENULLF", -1)
        ELSE IF next = NULL THEN Err(m, "XIPFS_ENULLF", -1)
        ELSE IF next # filp /\ ~xipfs_flash_page_aligned(next)
        THEN Err(m, "XIPFS_EALIGN", -1)
        ELSE IF next # filp /\ ~xipfs_flash_in(next) THEN Err(m, "XIPFS_EOUTNVM", -1)
        ELSE IF next # filp /\ filp >= next THEN Err(m, "XIPFS_ELINK", -1)
        ELSE IF next # filp /\ (filp + Field(m, filp, off_reserved)) % AddrSpace # next
        THEN Err(m, "XIPFS_ELINK", -1)
        ELSE Bind(xipfs_file_path_check(m, PathDec(Field(m, filp, off_path))), LAMBDA m1 :
             IF m1.ret < 0 THEN m1
             ELSE IF Field(m, filp, off_exec) \notin {0, 1} THEN Err(m, "XIPFS_EPERM", -1)
             ELSE Ret(m, 0))

xipfs_file_get_max_pos(m, filp) ==
    Bind(xipfs_file_filp_check(m, filp), LAMBDA m1 :
    IF m1.ret < 0 THEN m1
    ELSE Ret(m1, Field(m, filp, off_reserved) - sizeof_xipfs_file_t))

xipfs_file_get_reserved(m, filp) ==
    Bind(xipfs_file_filp_check(m, filp), LAMBDA m1 :
    IF m1.ret < 0 THEN m1 ELSE Ret(m1, Field(m, filp, off_reserved)))

RECURSIVE ErasePages(_, _, _)
ErasePages(m, page, number) ==
    IF number <= 0 THEN Ret(m, 0)
    ELSE Bind(xipfs_flash_erase_page(m, page), LAMBDA m1 :
         IF m1.ret < 0 THEN m1 ELSE ErasePages(m1, page + 1, number - 1))

xipfs_file_erase(m, filp) ==
    Bind(xipfs_file_filp_check(m, filp), LAMBDA m1 :
    IF m1.ret < 0 THEN m1
    ELSE ErasePages(m1, xipfs_nvm_page(filp),
                    Field(m, filp, off_reserved) \div XIPFS_NVM_PAGE_SIZE))

\* the first index i in 1..XIPFS_FILESIZE_SLOT_MAX-1 whose slot satisfies the
\* loop's exit test, or XIPFS_FILESIZE_SLOT_MAX when the loop runs to its end
RECURSIVE SlotScan(_, _, _, _)
SlotScan(m, filp, i, erased) ==
    IF i >= XIPFS_FILESIZE_SLOT_MAX THEN i
    ELSE IF (Field(m, filp, off_size + i) = XIPFS_FLASH_ERASE_STATE) = erased THEN i
    ELSE SlotScan(m, filp, i + 1, erased)

\* a variant of xipfs_file_get_size_ that returns the first erased slot
\* instead of the slot before it
get_size_first_erased(m, filp) ==
    IF Field(m, filp, off_size) = XIPFS_FLASH_ERASE_STATE THEN Ret(m, 0)
    ELSE Bind(SlotScan(m, filp, 1, TRUE), LAMBDA i :
         IF i < XIPFS_FILESIZE_SLOT_MAX THEN Ret(m, Field(m, filp, off_size + i))
         ELSE Bind(xipfs_buffer_read_32(m, filp + off_size + i - 1), LAMBDA m1 :
              IF m1.ret < 0 THEN Ret(m1, -1) ELSE Ret(m1, m1.data[1])))

xipfs_file_get_size_(m, filp) ==
    IF Field(m, filp, off_size) = XIPFS_FLASH_ERASE_STATE THEN Ret(m, 0)
    ELSE Bind(SlotScan(m, filp, 1, TRUE), LAMBDA i :
         IF i < XIPFS_FILESIZE_SLOT_MAX THEN Ret(m, Field(m, filp, off_size + i - 1))
         ELSE Bind(xipfs_buffer_read_32(m, filp + off_size + i - 1), LAMBDA m1 :
              IF m1.ret < 0 THEN Ret(m1, -1) ELSE Ret(m1, m1.data[1])))

xipfs_file_get_size(m, filp) ==
    Bind(xipfs_file_filp_check(m, filp), LAMBDA m1 :
    IF m1.ret < 0 THEN m1 ELSE xipfs_file_get_size_(m1, filp))

xipfs_file_set_size(m, filp, size) ==
    Bind(xipfs_file_filp_check(m, filp), LAMBDA m1 :
    IF m1.ret < 0 THEN m1
    ELSE Bind(SlotScan(m, filp, 1, FALSE) % XIPFS_FILESIZE_SLOT_MAX, LAMBDA i :
         Bind(xipfs_buffer_write_32(m1, filp + off_size + i, size), LAMBDA m2 :
         IF m2.ret < 0 THEN Ret(m2, -1)
         ELSE Bind(xipfs_buffer_flush(m2), LAMBDA m3 :
              IF m3.ret < 0 THEN Ret(m3, -1) ELSE Ret(m3, 0)))))

xipfs_file_rename(m, filp, to_path) ==
    Bind(xipfs_file_filp_check(m, filp), LAMBDA m1 :
    IF m1.ret < 0 THEN m1
    ELSE Bind(xipfs_file_path_check(m1, to_path), LAMBDA m2 :
         IF m2.ret < 0 THEN m2
         ELSE Bind(xipfs_buffer_write(m2, filp + off_path, <<PathEnc(to_path)>>), LAMBDA m3 :
              IF m3.ret < 0 THEN Ret(m3, -1)
              ELSE Bind(xipfs_buffer_flush(m3), LAMBDA m4 :
                   IF m4.ret < 0 THEN Ret(m4, -1) ELSE Ret(m4, 0)))))

xipfs_file_read_8(m, filp, pos) ==
    Bind(xipfs_file_filp_check(m, filp), LAMBDA m1 :
    IF m1.ret < 0 THEN [m1 EXCEPT !.data = <<>>]
    ELSE Bind(xipfs_file_get_max_pos(m1, filp), LAMBDA m2 :
         IF m2.ret < 0 THEN [m2 EXCEPT !.ret = -1, !.data = <<>>]
         ELSE IF pos < 0 \/ pos > m2.ret
         THEN [m2 EXCEPT !.errno = "XIPFS_EMAXOFF", !.ret = -1, !.data = <<>>]
         ELSE Bind(xipfs_buffer_read_8(m2, filp + off_buf + pos), LAMBDA m3 :
              IF m3.ret < 0 THEN Ret(m3, -1) ELSE Ret(m3, 0))))

xipfs_file_write_8(m, filp, pos, byte) ==
    Bind(xipfs_file_filp_check(m, filp), LAMBDA m1 :
    IF m1.ret < 0 THEN m1
    ELSE Bind(xipfs_file_get_max_pos(m1, filp), LAMBDA m2 :
         IF m2.ret < 0 THEN Ret(m2, -1)
         ELSE IF pos < 0 \/ pos > m2.ret THEN Err(m2, "XIPFS_EMAXOFF", -1)
         ELSE Bind(xipfs_buffer_write_8(m2, filp + off_buf + pos, byte), LAMBDA m3 :
              IF m3.ret < 0 THEN Ret(m3, -1) ELSE Ret(m3, 0))))

(***************************************************************************)
(* fs.c                                                                    *)
(***************************************************************************)
\* ROUND with the round-up term dropped
ROUND_down(x, y) == (x \div y) * y

\* size_t has the width of an address: the sum wraps
ROUND(x, y) == (((x + y - 1) % AddrSpace) \div y) * y

xipfs_fs_head(m) ==
    IF Field(m, mp_page_addr, off_next) = XIPFS_FLASH_ERASE_STATE THEN Ret(m, NULL)
    ELSE Bind(xipfs_file_filp_check(m, mp_page_addr), LAMBDA m1 :
         IF m1.ret < 0 THEN Ret(m1, NULL) ELSE Ret(m1, mp_page_addr))

xipfs_fs_next(m, filp) ==
    Bind(xipfs_file_filp_check(m, filp), LAMBDA m1 :
    Bind(Field(m, filp, off_next), LAMBDA nextp :
    IF m1.ret < 0 THEN Ret(m1, NULL)
    ELSE IF nextp = filp THEN Ret(m1, NULL)
    ELSE IF Field(m, nextp, off_next) = XIPFS_FLASH_ERASE_STATE THEN Ret(m1, NULL)
    ELSE Bind(xipfs_file_filp_check(m1, nextp), LAMBDA m2 :
         IF m2.ret < 0 THEN Ret(m2, NULL) ELSE Ret(m2, nextp))))

\* the do-while loop of xipfs_fs_tail: ret is the last record reached
RECURSIVE TailLoop(_, _)
TailLoop(m, filp) ==
    Bind(xipfs_fs_next([m EXCEPT !.errno = "XIPFS_OK"], filp), LAMBDA m1 :
    IF m1.ret # NULL THEN TailLoop(m1, m1.ret) ELSE Ret(m1, filp))

xipfs_fs_tail(m) ==
    Bind(xipfs_fs_head(m), LAMBDA m1 :
    IF m1.ret = NULL THEN m1
    ELSE Bind(TailLoop(m1, m1.ret), LAMBDA m2 :
         IF m2.errno # "XIPFS_OK" THEN Ret(m2, NULL) ELSE m2))

xipfs_fs_tail_next(m) ==
    Bind(xipfs_fs_tail([m EXCEPT !.errno = "XIPFS_OK"]), LAMBDA m1 :
    IF m1.ret = NULL
    THEN IF m1.errno # "XIPFS_OK" THEN Ret(m1, NULL) ELSE Ret(m1, mp_page_addr)
    ELSE IF Field(m1, m1.ret, off_next) = m1.ret THEN Err(m1, "XIPFS_EFULL", NULL)
    ELSE Ret(m1, Field(m1, m1.ret, off_next)))

xipfs_fs_get_page_number == mp_page_num

xipfs_fs_free_pages(m) ==
    Bind(xipfs_fs_head([m EXCEPT !.errno = "XIPFS_OK"]), LAMBDA m1 :
    IF m1.ret = NULL
    THEN IF m1.errno # "XIPFS_OK" THEN Ret(m1, -1) ELSE Ret(m1, mp_page_num)
    ELSE Bind(xipfs_fs_tail(m1), LAMBDA m2 :
         IF m2.ret = NULL THEN Ret(m2, -1)
         ELSE Ret(m2, mp_page_num -
                  ((m2.ret + Field(m2, m2.ret, off_reserved) - m1.ret)
                      \div XIPFS_NVM_PAGE_SIZE))))

\* the header image built on the stack by xipfs_fs_new_file
NewHeader(path, reserved, next, exec) ==
    [i \in 1..sizeof_xipfs_file_t |->
        IF i = off_next + 1 THEN next
        ELSE IF i = off_path + 1 THEN PathEnc(SubSeq(path, 1, Min(Len(path), XIPFS_PATH_MAX - 1)))
        ELSE IF i = off_reserved + 1 THEN reserved
        ELSE IF i = off_exec + 1 THEN exec
        ELSE XIPFS_FLASH_ERASE_STATE]

\* the part of xipfs_fs_new_file that follows the computation of the free
\* pages (m3), of the record's place (filp) and of its reserved size
NewFileAt(m3, filp, path, reserved, exec) ==
    LET free_pages     == m3.ret
        reserved_pages == reserved \div XIPFS_NVM_PAGE_SIZE
        next           == IF reserved_pages < free_pages THEN filp + reserved ELSE filp
    IN  IF free_pages < 0 THEN Ret(m3, NULL)
        ELSE IF reserved_pages > free_pages THEN Err(m3, "XIPFS_ENOSPACE", NULL)
        ELSE Bind(xipfs_buffer_write(m3, filp, NewHeader(path, reserved, next, exec)),
             LAMBDA m4 :
             IF m4.ret < 0 THEN Ret(m4, NULL)
             ELSE Bind(xipfs_buffer_flush(m4), LAMBDA m5 :
                  IF m5.ret < 0 THEN Ret(m5, NULL) ELSE Ret(m5, filp)))

xipfs_fs_new_file(m, path, size, exec) ==
    Bind(xipfs_file_path_check(Note(m, "xipfs_fs_new_file", size, exec), path), LAMBDA m1 :
    IF m1.ret < 0 THEN Ret(m1, NULL)
    ELSE IF exec # 0 /\ exec # 1 THEN Err(m1, "XIPFS_EPERM", NULL)
    ELSE Bind(xipfs_fs_tail_next(m1), LAMBDA m2 :
         IF m2.ret = NULL THEN m2
         ELSE NewFileAt(xipfs_fs_free_pages(m2), m2.ret, path,
                        IF size > 0
                        THEN ROUND((size + sizeof_xipfs_file_t) % AddrSpace,
                                   XIPFS_NVM_PAGE_SIZE)
                        ELSE XIPFS_NVM_PAGE_SIZE,
                        exec)))

\* the for loop of xipfs_fs_remove over the pages of a record after its first
RECURSIVE RemovePages(_, _, _, _, _)
RemovePages(m, dst, src, i, pagenum) ==
    IF i >= pagenum THEN Ret(m, 0)
    ELSE IF xipfs_flash_is_erased_page(m.nvm, xipfs_nvm_page(src))
    THEN RemovePages(m, dst + XIPFS_NVM_PAGE_SIZE, src + XIPFS_NVM_PAGE_SIZE, i + 1, pagenum)
    ELSE Bind(xipfs_flash_write_unaligned(m, dst,
                 [k \in 1..XIPFS_NVM_PAGE_SIZE |-> Peek(m.nvm, src + k - 1)]), LAMBDA m1 :
         IF m1.ret < 0 THEN Ret(m1, -1)
         ELSE Bind(xipfs_flash_erase_page(m1, xipfs_nvm_page(src)), LAMBDA m2 :
              IF m2.ret < 0 THEN Ret(m2, -1)
              ELSE RemovePages(m2, dst + XIPFS_NVM_PAGE_SIZE, src + XIPFS_NVM_PAGE_SIZE,
                               i + 1, pagenum)))

\* the while loop of xipfs_fs_remove: the records after the removed one are
\* moved down one after the other
\* the header of the record at src as it is written at dst: its next field
\* is rebased on dst
MovedHeader(m, dst, src, size) ==
    [k \in 1..sizeof_xipfs_file_t |->
        IF k = off_next + 1 THEN (dst + size) % AddrSpace
        ELSE Peek(m.nvm, src + k - 1)]

\* the body of the while loop of xipfs_fs_remove once the next record (m1)
\* and the size of the record at src are known
RemoveStep(m1, dst, src, size) ==
    Bind(xipfs_flash_write_unaligned(m1, dst, MovedHeader(m1, dst, src, size)), LAMBDA m2 :
    IF m2.ret < 0 THEN Ret(m2, -1)
    ELSE Bind(xipfs_flash_write_unaligned(m2, dst + sizeof_xipfs_file_t,
                 [k \in 1..(XIPFS_NVM_PAGE_SIZE - sizeof_xipfs_file_t) |->
                     Peek(m2.nvm, src + sizeof_xipfs_file_t + k - 1)]), LAMBDA m3 :
         IF m3.ret < 0 THEN Ret(m3, -1)
         ELSE Bind(xipfs_flash_erase_page(m3, xipfs_nvm_page(src)), LAMBDA m4 :
              IF m4.ret < 0 THEN Ret(m4, -1)
              ELSE RemovePages(m4, dst + XIPFS_NVM_PAGE_SIZE, src + XIPFS_NVM_PAGE_SIZE,
                               1, size \div XIPFS_NVM_PAGE_SIZE))))

\* the while loop of xipfs_fs_remove: the records after the removed one are
\* moved down one after the other
RECURSIVE RemoveLoop(_, _, _)
RemoveLoop(m, dst, src) ==
    IF src = NULL THEN Ret(m, 0)
    ELSE Bind(xipfs_fs_next(m, src), LAMBDA m1 :
         Bind((Field(m1, src, off_next) - src) % AddrSpace, LAMBDA size :
         IF m1.ret = NULL /\ m1.errno # "XIPFS_OK" THEN Ret(m1, -1)
         ELSE Bind(RemoveStep(m1, dst, src, size), LAMBDA m5 :
              IF m5.ret < 0 THEN Ret(m5, -1)
              ELSE RemoveLoop(m5,
                     dst + XIPFS_NVM_PAGE_SIZE *
                        (IF size \div XIPFS_NVM_PAGE_SIZE > 1
                         THEN size \div XIPFS_NVM_PAGE_SIZE ELSE 1),
                     m1.ret))))

xipfs_fs_remove(m, dst) ==
    Bind(Bind(xipfs_fs_next([Note(m, "xipfs_fs_remove", dst, Field(m, dst, off_reserved))
                               EXCEPT !.errno = "XIPFS_OK"], dst), LAMBDA m1 :
         IF m1.ret = NULL /\ m1.errno # "XIPFS_OK" THEN Ret(m1, -1)
         ELSE Bind(xipfs_file_erase(m1, dst), LAMBDA m2 :
              IF m2.ret < 0 THEN Ret(m2, -1)
              ELSE RemoveLoop(m2, dst, m1.ret))),
         LAMBDA r : Note(r, "return", dst, r.ret))

xipfs_fs_format(m) ==
    ErasePages(m, xipfs_nvm_page(mp_page_addr), xipfs_nvm_page(mp_end) - xipfs_nvm_page(mp_page_addr))

(***************************************************************************)
(* desc.c.  A descriptor is named by the address of the caller's           *)
(* structure: file descriptors are FileDescs, directory descriptors        *)
(* DirDescs.                                                               *)
(***************************************************************************)
NumFileDesc == 2
NumDirDesc == 1
FileDescs == 1..NumFileDesc
DirDescs == (NumFileDesc + 1)..(NumFileDesc + NumDirDesc)

DESC_FREE == "DESC_FREE"
DESC_FILE == "DESC_FILE"
DESC_DIR == "DESC_DIR"

\* address of the virtual information file, an object of the firmware
xipfs_infos_file == 1

open_desc_init == [i \in 1..XIPFS_MAX_OPEN_DESC |-> [type |-> DESC_FREE, addr |-> NULL]]

Rc(m, rc) == [m EXCEPT !.rc = rc]
Drv(m, rc, v) == [m EXCEPT !.rc = rc, !.ret = v]

DescEntries(m, descp) == {i \in 1..XIPFS_MAX_OPEN_DESC : m.open_desc[i].addr = descp}
FirstOf(S) == CHOOSE i \in S : \A j \in S : i <= j

\* a variant that takes the first free entry without looking for descp in
\* the table
xipfs_desc_track_unchecked(m, descp, type) ==
    LET free == {i \in 1..XIPFS_MAX_OPEN_DESC : m.open_desc[i].addr = NULL}
    IN  IF free = {} THEN Rc(m, "ENFILE")
        ELSE [m EXCEPT !.open_desc[FirstOf(free)] = [type |-> type, addr |-> descp],
                       !.rc = "OK"]

xipfs_desc_track_(m, descp, type) ==
    LET free == {i \in 1..XIPFS_MAX_OPEN_DESC : m.open_desc[i].addr = NULL}
    IN  IF DescEntries(m, descp) # {} THEN Rc(m, "EIO")
        ELSE IF free = {} THEN Rc(m, "ENFILE")
        ELSE [m EXCEPT !.open_desc[FirstOf(free)] = [type |-> type, addr |-> descp],
                       !.rc = "OK"]

xipfs_desc_untrack_(m, descp, type) ==
    LET S == DescEntries(m, descp)
    IN  IF S = {} THEN Rc(m, "EIO")
        ELSE IF \E i \in S : m.open_desc[i].type # type THEN Rc(m, "EIO")
        ELSE IF Cardinality(S) > 1 THEN Rc(m, "EIO")
        ELSE [m EXCEPT !.open_desc[FirstOf(S)] = [type |-> DESC_FREE, addr |-> NULL],
                       !.rc = "OK"]

xipfs_desc_tracked_(m, descp, type) ==
    LET S == DescEntries(m, descp)
    IN  IF S = {} THEN Rc(m, "EBADF")
        ELSE IF \E i \in S : m.open_desc[i].type # type THEN Rc(m, "EIO")
        ELSE IF Cardinality(S) > 1 THEN Rc(m, "EIO")
        ELSE Rc(m, "OK")

xipfs_file_desc_track(m, descp) == xipfs_desc_track_(m, descp, DESC_FILE)
xipfs_dir_desc_track(m, descp) == xipfs_desc_track_(m, descp, DESC_DIR)
xipfs_file_desc_untrack(m, descp) == xipfs_desc_untrack_(m, descp, DESC_FILE)
xipfs_dir_desc_untrack(m, descp) == xipfs_desc_untrack_(m, descp, DESC_DIR)
xipfs_file_desc_tracked(m, descp) == xipfs_desc_tracked_(m, descp, DESC_FILE)
xipfs_dir_desc_tracked(m, descp) == xipfs_desc_tracked_(m, descp, DESC_DIR)

\* the record address held by the descriptor structure of a table entry
EntryFilp(m, e) == IF e.type = DESC_FILE THEN m.fdesc[e.addr].filp
                   ELSE m.ddesc[e.addr].filp

InMount(filp) == filp >= mp_page_addr /\ filp < mp_end

xipfs_desc_untrack_all(m) ==
    [m EXCEPT !.rc = "OK",
              !.open_desc = [i \in 1..XIPFS_MAX_OPEN_DESC |->
                 LET e == m.open_desc[i]
                 IN  IF e.type # DESC_FREE /\ EntryFilp(m, e) # xipfs_infos_file
                        /\ InMount(EntryFilp(m, e))
                     THEN [type |-> DESC_FREE, addr |-> NULL]
                     ELSE e]]

\* file_descp->filp = (xipfs_file_t *)(uintptr_t)file_descp->filp - reserved:
\* the cast binds before the subtraction, which is then pointer arithmetic
\* on xipfs_file_t and steps by reserved * sizeof(xipfs_file_t)
DescShift(filp, reserved) == (filp - reserved * sizeof_xipfs_file_t) % AddrSpace

\* whether a table entry designates a record of the mount point above
\* (resp. at) the removed one
EntryAbove(m, e, removed) ==
    /\ e.type # DESC_FREE
    /\ EntryFilp(m, e) # xipfs_infos_file
    /\ InMount(EntryFilp(m, e))
    /\ EntryFilp(m, e) > removed
EntryAt(m, e, removed) ==
    /\ e.type # DESC_FREE
    /\ EntryFilp(m, e) # xipfs_infos_file
    /\ InMount(EntryFilp(m, e))
    /\ EntryFilp(m, e) = removed

\* the table is scanned in order: a descriptor structure is rewritten once
\* for each entry that names it
RECURSIVE DescUpdateLoop(_, _, _, _)
DescUpdateLoop(m, i, removed, reserved) ==
    IF i > XIPFS_MAX_OPEN_DESC THEN Rc(m, "OK")
    ELSE LET e == m.open_desc[i]
             m1 == IF EntryAbove(m, e, removed)
                   THEN IF e.type = DESC_FILE
                        THEN [m EXCEPT !.fdesc[e.addr].filp = DescShift(@, reserved)]
                        ELSE [m EXCEPT !.ddesc[e.addr].filp = DescShift(@, reserved)]
                   ELSE IF EntryAt(m, e, removed)
                   THEN [m EXCEPT !.open_desc[i] = [type |-> DESC_FREE, addr |-> NULL]]
                   ELSE m
         IN  DescUpdateLoop(m1, i + 1, removed, reserved)

xipfs_desc_update(m, removed, reserved) ==
    IF removed = NULL THEN Rc(Note(m, "xipfs_desc_update", removed, reserved), "EFAULT")
    ELSE DescUpdateLoop(Note(m, "xipfs_desc_update", removed, reserved), 1, removed,
                        reserved)

(***************************************************************************)
(* path.c                                                                  *)
(***************************************************************************)
NUL == "NUL"
\* the character at index i (from 0) of a C string
CAt(str, i) == IF i < Len(str) THEN str[i + 1] ELSE NUL

strnlen(str, n) == Min(Len(str), n)
\* strncmp(a, b, n) == 0
strncmp_eq(a, b, n) == SubSeq(a, 1, Min(Len(a), n)) = SubSeq(b, 1, Min(Len(b), n))
strcmp_eq(a, b) == a = b

XIPFS_PATH_UNDEFINED == "XIPFS_PATH_UNDEFINED"
XIPFS_PATH_CREATABLE == "XIPFS_PATH_CREATABLE"
XIPFS_PATH_EXISTS_AS_FILE == "XIPFS_PATH_EXISTS_AS_FILE"
XIPFS_PATH_EXISTS_AS_EMPTY_DIR == "XIPFS_PATH_EXISTS_AS_EMPTY_DIR"
XIPFS_PATH_EXISTS_AS_NONEMPTY_DIR == "XIPFS_PATH_EXISTS_AS_NONEMPTY_DIR"
XIPFS_PATH_INVALID_BECAUSE_NOT_DIRS == "XIPFS_PATH_INVALID_BECAUSE_NOT_DIRS"
XIPFS_PATH_INVALID_BECAUSE_NOT_FOUND == "XIPFS_PATH_INVALID_BECAUSE_NOT_FOUND"

RECURSIVE ComparePathsFrom(_, _, _)
ComparePathsFrom(path_1, path_2, i) ==
    IF i >= XIPFS_PATH_MAX THEN i
    ELSE IF CAt(path_1, i) # CAt(path_2, i) THEN i
    ELSE IF CAt(path_1, i) = NUL THEN i
    ELSE ComparePathsFrom(path_1, path_2, i + 1)

compare_paths(path_1, path_2) == ComparePathsFrom(path_1, path_2, 0)

exists_as_file(path_1, path_2, i) ==
    /\ i > 0
    /\ CAt(path_1, i - 1) # "/" /\ CAt(path_1, i - 1) # NUL /\ CAt(path_1, i) = NUL
    /\ CAt(path_2, i - 1) # "/" /\ CAt(path_2, i - 1) # NUL /\ CAt(path_2, i) = NUL

exists_as_empty_dir(path_1, path_2, i) ==
    \/ /\ i > 0
       /\ CAt(path_1, i - 1) = "/" /\ CAt(path_1, i) = NUL
       /\ CAt(path_2, i - 1) = "/" /\ CAt(path_2, i) = NUL
    \/ /\ i > 0 /\ i < XIPFS_PATH_MAX - 1
       /\ CAt(path_1, i - 1) # "/" /\ CAt(path_1, i - 1) # NUL
       /\ CAt(path_1, i) = "/" /\ CAt(path_1, i + 1) = NUL
       /\ CAt(path_2, i - 1) # "/" /\ CAt(path_2, i - 1) # NUL /\ CAt(path_2, i) = NUL

exists_as_nonempty_dir(path_1, path_2, i) ==
    \/ /\ i > 0
       /\ CAt(path_1, i - 1) = "/" /\ CAt(path_1, i) # "/" /\ CAt(path_1, i) # NUL
       /\ CAt(path_2, i - 1) = "/" /\ CAt(path_2, i) = NUL
    \/ /\ i > 0 /\ i < XIPFS_PATH_MAX - 1
       /\ CAt(path_1, i - 1) # "/" /\ CAt(path_1, i - 1) # NUL
       /\ CAt(path_1, i) = "/" /\ CAt(path_1, i + 1) # "/" /\ CAt(path_1, i + 1) # NUL
       /\ CAt(path_2, i - 1) # "/" /\ CAt(path_2, i - 1) # NUL /\ CAt(path_2, i) = NUL

invalid_because_not_dirs(path_1, path_2, i) ==
    /\ i > 0 /\ i < XIPFS_PATH_MAX - 1
    /\ CAt(path_1, i - 1) # "/" /\ CAt(path_1, i - 1) # NUL /\ CAt(path_1, i) = NUL
    /\ CAt(path_2, i - 1) # "/" /\ CAt(path_2, i - 1) # NUL
    /\ CAt(path_2, i) = "/" /\ CAt(path_2, i + 1) # "/" /\ CAt(path_2, i + 1) # NUL

creatable(path_1, dirname_2, dirname_2_len) == strncmp_eq(path_1, dirname_2, dirname_2_len)

\* the index of the last '/' that is not the final character, 0 if none
LastSlash(path) ==
    LET S == {k \in 0..(Len(path) - 1) : CAt(path, k) = "/" /\ CAt(path, k + 1) # NUL}
    IN  IF S = {} THEN 0 ELSE CHOOSE k \in S : \A j \in S : j <= k

xipfs_path_dirname(path, last_slash) ==
    IF path = <<"/">> THEN <<"/">> ELSE SubSeq(path, 1, Min(Len(path), last_slash + 1))

RECURSIVE BasenameFrom(_, _)
BasenameFrom(path, k) ==
    IF CAt(path, k) = "/" \/ CAt(path, k) = NUL THEN <<>>
    ELSE <<CAt(path, k)>> \o BasenameFrom(path, k + 1)

xipfs_path_basename(path, last_slash) ==
    IF path = <<"/">> THEN <<"/">> ELSE BasenameFrom(path, last_slash + 1)

xipfs_path_init(path) ==
    LET ls == LastSlash(path)
    IN  [path |-> path, dirname |-> xipfs_path_dirname(path, ls),
         basename |-> xipfs_path_basename(path, ls), len |-> Len(path),
         last_slash |-> ls, parent |-> 0, witness |-> NULL,
         info |-> XIPFS_PATH_UNDEFINED]

\* one turn of the loop of xipfs_path_new_n over the record filp; the result
\* is the updated xipfs_path_t, with a field fail set when the function
\* returns at once
\* the classification of the record filp, whose path is fpath, against the
\* path x1 in one turn of the loop of xipfs_path_new_n; i is the index at
\* which the two paths differ
PathClassify(x1, filp, fpath, i) ==
    LET slashed == IF CAt(x1.path, x1.len - 1) # "/"
                   THEN [x1 EXCEPT !.path = Append(@, "/"), !.len = @ + 1] ELSE x1
        toolong == CAt(x1.path, x1.len - 1) # "/" /\ x1.len = XIPFS_PATH_MAX - 1
    IN  IF x1.info # XIPFS_PATH_UNDEFINED /\ x1.info # XIPFS_PATH_CREATABLE
        THEN [x |-> x1, fail |-> "OK"]
        ELSE IF i = XIPFS_PATH_MAX THEN [x |-> x1, fail |-> "EIO"]
        ELSE IF exists_as_file(fpath, x1.path, i)
        THEN [x |-> [x1 EXCEPT !.info = XIPFS_PATH_EXISTS_AS_FILE, !.witness = filp],
              fail |-> "OK"]
        ELSE IF exists_as_empty_dir(fpath, x1.path, i)
        THEN IF toolong THEN [x |-> x1, fail |-> "ENAMETOOLONG"]
             ELSE [x |-> [slashed EXCEPT !.info = XIPFS_PATH_EXISTS_AS_EMPTY_DIR,
                                         !.witness = filp], fail |-> "OK"]
        ELSE IF exists_as_nonempty_dir(fpath, x1.path, i)
        THEN IF toolong THEN [x |-> x1, fail |-> "ENAMETOOLONG"]
             ELSE [x |-> [slashed EXCEPT !.info = XIPFS_PATH_EXISTS_AS_NONEMPTY_DIR,
                                         !.witness = filp], fail |-> "OK"]
        ELSE IF invalid_because_not_dirs(fpath, x1.path, i)
        THEN [x |-> [x1 EXCEPT !.info = XIPFS_PATH_INVALID_BECAUSE_NOT_DIRS,
                               !.witness = filp], fail |-> "OK"]
        ELSE IF creatable(fpath, x1.path, x1.last_slash + 1)
        THEN [x |-> [x1 EXCEPT !.info = XIPFS_PATH_CREATABLE, !.witness = filp],
              fail |-> "OK"]
        ELSE [x |-> x1, fail |-> "OK"]

\* one turn of the loop of xipfs_path_new_n over the record filp; the result
\* is the updated xipfs_path_t, with a field fail set when the function
\* returns at once
PathStep(m, x, filp) ==
    Bind(PathDec(Field(m, filp, off_path)), LAMBDA fpath :
    Bind(IF strncmp_eq(x.path, fpath, x.last_slash)
         THEN [x EXCEPT !.parent = @ + 1] ELSE x, LAMBDA x1 :
    PathClassify(x1, filp, fpath, compare_paths(fpath, x1.path))))

\* the do-while loop of xipfs_path_new_n; the result carries the machine
\* state (xipfs_errno is written by the walk), the path and the return value
RECURSIVE PathLoop(_, _, _)
PathLoop(m, x, filp) ==
    Bind(PathStep(m, x, filp), LAMBDA st :
    IF st.fail # "OK" THEN [m |-> m, x |-> st.x, ret |-> -1]
    ELSE Bind(xipfs_fs_next(m, filp), LAMBDA m1 :
         IF m1.ret # NULL THEN PathLoop(m1, st.x, m1.ret)
         ELSE [m |-> m1, x |-> st.x, ret |-> 0]))

\* the end of xipfs_path_new_n without its last loop
PathFinish_skip(r) == r

PathFinish(r) ==
    IF r.ret = 0 /\ r.x.info = XIPFS_PATH_UNDEFINED
    THEN [r EXCEPT !.x.info = XIPFS_PATH_INVALID_BECAUSE_NOT_FOUND, !.x.witness = NULL]
    ELSE r

\* the path of an empty file system
PathOnEmpty(x0) ==
    IF creatable(<<"/">>, x0.path, IF x0.last_slash > 0 THEN x0.last_slash - 1 ELSE 0)
    THEN [x0 EXCEPT !.info = XIPFS_PATH_CREATABLE, !.witness = NULL]
    ELSE x0

xipfs_path_new(m, path) ==
    Bind(xipfs_path_init(path), LAMBDA x0 :
    IF path = <<>> \/ Head(path) # "/" THEN [m |-> m, x |-> x0, ret |-> -1]
    ELSE Bind(xipfs_fs_head([m EXCEPT !.errno = "XIPFS_OK"]), LAMBDA m1 :
         IF m1.ret # NULL THEN PathFinish(PathLoop(m1, x0, m1.ret))
         ELSE IF m1.errno = "XIPFS_OK"
         THEN PathFinish([m |-> m1, ret |-> 0, x |-> PathOnEmpty(x0)])
         ELSE [m |-> m1, x |-> x0, ret |-> -1]))

(***************************************************************************)
(* driver.c.  A driver function leaves its errno-style result in rc ("OK"  *)
(* or the name of the error) and the value it returns on success in ret.   *)
(* Open flags are a set of flag names; the access mode O_RDONLY is the     *)
(* absence of O_WRONLY and O_RDWR.                                         *)
(***************************************************************************)
XIPFS_INFOS_NAME == <<".", "x", "i", "p", "f", "s", "_", "i", "n", "f", "o", "s">>
O_ACCMODE == {"O_WRONLY", "O_RDWR"}
XIPFS_SUPPORTED_FLAGS == {"O_CREAT", "O_EXCL", "O_APPEND"}

basename(path) ==
    LET end == IF CAt(path, Len(path) - 1) = "/" THEN Len(path) - 2 ELSE Len(path) - 1
        S   == {k \in 1..end : CAt(path, k) = "/"}
        start == IF S = {} THEN 1 ELSE (CHOOSE k \in S : \A j \in S : j <= k) + 1
    IN  IF Len(path) = 1 THEN <<"/">> ELSE SubSeq(path, start + 1, end + 1)

\* sync_remove_file with the descriptors updated before the removal
sync_remove_file_early(m, filp) ==
    Bind(xipfs_buffer_flush(m), LAMBDA m1 :
    IF m1.ret < 0 THEN Ret(m1, -1)
    ELSE Bind(Field(m1, filp, off_reserved), LAMBDA reserved :
         Bind(xipfs_fs_remove(xipfs_desc_update(m1, filp, reserved), filp), LAMBDA m2 :
         IF m2.ret < 0 THEN Ret(m2, -1)
         ELSE [m2 EXCEPT !.ret = 0,
                         !.removed = Append(@, [filp |-> filp, reserved |-> reserved])])))

sync_remove_file(m, filp) ==
    Bind(xipfs_buffer_flush(m), LAMBDA m1 :
    IF m1.ret < 0 THEN Ret(m1, -1)
    ELSE Bind(Field(m1, filp, off_reserved), LAMBDA reserved :
         Bind(xipfs_fs_remove(m1, filp), LAMBDA m2 :
         IF m2.ret < 0 THEN Ret(m2, -1)
         ELSE [xipfs_desc_update(m2, filp, reserved)
                 EXCEPT !.ret = 0,
                        !.removed = Append(@, [filp |-> filp, reserved |-> reserved])])))

\* the removal of the empty-directory record of the parent, common to
\* xipfs_mkdir, xipfs_new_file and xipfs_open
RemoveParentMarker(m, x, rootToo) ==
    IF /\ x.witness # NULL
       /\ (rootToo \/ x.dirname # <<"/">>)
       /\ strcmp_eq(PathDec(Field(m, x.witness, off_path)), x.dirname)
    THEN sync_remove_file(m, x.witness)
    ELSE Ret(m, 0)

xipfs_mp_check ==
    IF ~xipfs_flash_in(mp_page_addr) THEN "EINVAL"
    ELSE IF mp_page_num = 0 THEN "EINVAL"
    ELSE IF mp_page_num > XIPFS_NVM_NUMOF THEN "EINVAL"
    ELSE IF xipfs_nvm_page(mp_page_addr) + mp_page_num > XIPFS_NVM_NUMOF THEN "EINVAL"
    ELSE "OK"

xipfs_file_desc_check(m, descp) ==
    IF m.fdesc[descp].filp = NULL THEN "EINVAL"
    ELSE IF ~InMount(m.fdesc[descp].filp) THEN "EINVAL"
    ELSE IF m.fdesc[descp].pos < 0 THEN "EINVAL"
    ELSE "OK"

\* the checks shared by the functions that take an open file descriptor
DescGate(m, descp) ==
    IF xipfs_mp_check # "OK" THEN xipfs_mp_check
    ELSE Bind(xipfs_file_desc_check(m, descp), LAMBDA ret :
         IF ret # "OK" THEN ret ELSE xipfs_file_desc_tracked(m, descp).rc)

xipfs_close(m, descp) ==
    LET d == m.fdesc[descp]
    IN  IF xipfs_mp_check # "OK" THEN Drv(m, xipfs_mp_check, -1)
        ELSE IF d.filp = xipfs_infos_file THEN Drv(m, "OK", 0)
        ELSE Bind(DescGate(m, descp), LAMBDA ret :
        IF ret # "OK" THEN Drv(m, ret, -1)
        ELSE Bind(xipfs_file_get_size(m, d.filp), LAMBDA m1 :
        IF m1.ret < 0 THEN Drv(m1, "EIO", -1)
        ELSE Bind(IF m1.ret < d.pos THEN xipfs_file_set_size(m1, d.filp, d.pos) ELSE m1,
             LAMBDA m2 :
        IF m2.ret < 0 THEN Drv(m2, "EIO", -1)
        ELSE Bind(xipfs_file_desc_untrack(m2, descp), LAMBDA m3 :
        IF m3.rc # "OK" THEN Drv(m3, m3.rc, -1) ELSE Drv(m3, "OK", 0)))))

\* on success ret is st_size and data is <<st_ino, st_blocks>>
xipfs_fstat(m, descp) ==
    LET d == m.fdesc[descp]
    IN  IF xipfs_mp_check # "OK" THEN Drv(m, xipfs_mp_check, -1)
        ELSE IF d.filp = xipfs_infos_file THEN Drv(m, "EBADF", -1)
        ELSE Bind(DescGate(m, descp), LAMBDA ret :
        IF ret # "OK" THEN Drv(m, ret, -1)
        ELSE Bind(xipfs_file_get_size(m, d.filp), LAMBDA m1 :
        IF m1.ret < 0 THEN Drv(m1, "EIO", -1)
        ELSE Bind(xipfs_file_get_reserved(m1, d.filp), LAMBDA m2 :
        IF m2.ret < 0 THEN Drv(m2, "EIO", -1)
        ELSE [m2 EXCEPT !.rc = "OK",
                        !.ret = IF m1.ret > d.pos THEN m1.ret ELSE d.pos,
                        !.data = <<d.filp, m2.ret \div XIPFS_NVM_PAGE_SIZE>>])))

\* a variant of the seek in which SEEK_END starts from the recorded size
\* whatever the position
LseekTo_from_size(m2, descp, off, whence, max_pos) ==
    LET d       == m2.fdesc[descp]
        size    == m2.ret
        new_pos == IF whence = "SEEK_SET" THEN off
                   ELSE IF whence = "SEEK_CUR" THEN d.pos + off
                   ELSE size + off
    IN  IF whence \notin {"SEEK_SET", "SEEK_CUR", "SEEK_END"} THEN Drv(m2, "EINVAL", -1)
        ELSE IF new_pos < 0 \/ new_pos > max_pos THEN Drv(m2, "EINVAL", -1)
        ELSE Bind(IF d.pos > size /\ new_pos < d.pos
                  THEN xipfs_file_set_size(m2, d.filp, d.pos) ELSE m2, LAMBDA m3 :
             IF m3.ret < 0 THEN Drv(m3, "EIO", -1)
             ELSE [m3 EXCEPT !.fdesc[descp].pos = new_pos, !.rc = "OK", !.ret = new_pos])

\* the end of xipfs_lseek, once the maximum position and the size (m2.ret)
\* of the file are known
LseekTo(m2, descp, off, whence, max_pos) ==
    LET d       == m2.fdesc[descp]
        size    == m2.ret
        new_pos == IF whence = "SEEK_SET" THEN off
                   ELSE IF whence = "SEEK_CUR" THEN d.pos + off
                   ELSE (IF d.pos > size THEN d.pos ELSE size) + off
    IN  IF whence \notin {"SEEK_SET", "SEEK_CUR", "SEEK_END"} THEN Drv(m2, "EINVAL", -1)
        ELSE IF new_pos < 0 \/ new_pos > max_pos THEN Drv(m2, "EINVAL", -1)
        ELSE Bind(IF d.pos > size /\ new_pos < d.pos
                  THEN xipfs_file_set_size(m2, d.filp, d.pos) ELSE m2, LAMBDA m3 :
             IF m3.ret < 0 THEN Drv(m3, "EIO", -1)
             ELSE [m3 EXCEPT !.fdesc[descp].pos = new_pos, !.rc = "OK", !.ret = new_pos])

xipfs_lseek(m, descp, off, whence) ==
    IF xipfs_mp_check # "OK" THEN Drv(m, xipfs_mp_check, -1)
    ELSE Bind(xipfs_file_desc_check(m, descp), LAMBDA ret :
    IF ret # "OK" THEN Drv(m, ret, -1)
    ELSE IF xipfs_file_desc_tracked(m, descp).rc # "OK" THEN Drv(m, "EBADF", -1)
    ELSE Bind(xipfs_file_get_max_pos(m, m.fdesc[descp].filp), LAMBDA m1 :
    IF m1.ret < 0 THEN Drv(m1, "EIO", -1)
    ELSE Bind(xipfs_file_get_size(m1, m.fdesc[descp].filp), LAMBDA m2 :
    IF m2.ret < 0 THEN Drv(m2, "EIO", -1)
    ELSE LseekTo(m2, descp, off, whence, m1.ret))))

\* the part of xipfs_open that follows the resolution of the path to the
\* record filp
OpenTrack(m, descp, filp, flags) ==
    Bind(IF "O_APPEND" \in flags THEN xipfs_file_get_size(m, filp) ELSE Ret(m, 0), LAMBDA m1 :
    IF m1.ret < 0 THEN Drv(m1, "EIO", -1)
    ELSE Bind(xipfs_file_desc_track(m1, descp), LAMBDA m2 :
         IF m2.rc # "OK" THEN Drv(m2, m2.rc, -1)
         ELSE [m2 EXCEPT !.fdesc[descp] = [filp |-> filp, flags |-> flags, pos |-> m1.ret],
                         !.rc = "OK", !.ret = 0]))

\* the XIPFS_PATH_CREATABLE case of xipfs_open
OpenCreate(m, descp, x, name, flags) ==
    IF "O_CREAT" \notin flags THEN Drv(m, "ENOENT", -1)
    ELSE IF CAt(x.path, x.len - 1) = "/" THEN Drv(m, "EISDIR", -1)
    ELSE Bind(RemoveParentMarker(m, x, FALSE), LAMBDA m1 :
         IF m1.ret < 0 THEN Drv(m1, "EIO", -1)
         ELSE Bind(xipfs_fs_new_file(m1, name, 0, 0), LAMBDA m2 :
              IF m2.ret # NULL THEN OpenTrack(m2, descp, m2.ret, flags)
              ELSE IF m2.errno \in {"XIPFS_ENOSPACE", "XIPFS_EFULL"}
              THEN Drv(m2, "EDQUOT", -1)
              ELSE Drv(m2, "EIO", -1)))

\* the switch of xipfs_open on the resolution r of the path
OpenResolved(r, descp, name, flags) ==
    LET x == r.x
    IN  IF r.ret < 0 THEN Drv(r.m, "EIO", -1)
        ELSE IF x.info = XIPFS_PATH_EXISTS_AS_FILE
        THEN IF {"O_CREAT", "O_EXCL"} \subseteq flags THEN Drv(r.m, "EEXIST", -1)
             ELSE OpenTrack(r.m, descp, x.witness, flags)
        ELSE IF x.info \in {XIPFS_PATH_EXISTS_AS_EMPTY_DIR, XIPFS_PATH_EXISTS_AS_NONEMPTY_DIR}
        THEN Drv(r.m, "EISDIR", -1)
        ELSE IF x.info = XIPFS_PATH_INVALID_BECAUSE_NOT_DIRS THEN Drv(r.m, "ENOTDIR", -1)
        ELSE IF x.info = XIPFS_PATH_INVALID_BECAUSE_NOT_FOUND THEN Drv(r.m, "ENOENT", -1)
        ELSE IF x.info = XIPFS_PATH_CREATABLE THEN OpenCreate(r.m, descp, x, name, flags)
        ELSE Drv(r.m, "EIO", -1)

xipfs_open(m, descp, name, flags) ==
    IF xipfs_mp_check # "OK" THEN Drv(m, xipfs_mp_check, -1)
    ELSE IF O_ACCMODE \subseteq flags THEN Drv(m, "EINVAL", -1)
    ELSE IF (flags \ O_ACCMODE) \ XIPFS_SUPPORTED_FLAGS # {}
            /\ (flags \ O_ACCMODE) \cap XIPFS_SUPPORTED_FLAGS = {}
    THEN Drv(m, "EINVAL", -1)
    ELSE IF strnlen(name, XIPFS_PATH_MAX) = XIPFS_PATH_MAX THEN Drv(m, "ENAMETOOLONG", -1)
    ELSE IF basename(name) = XIPFS_INFOS_NAME
    THEN IF {"O_CREAT", "O_EXCL"} \subseteq flags THEN Drv(m, "EEXIST", -1)
         ELSE IF flags \cap {"O_WRONLY", "O_APPEND", "O_RDWR"} # {} THEN Drv(m, "EACCES", -1)
         ELSE [m EXCEPT !.fdesc[descp] = [filp |-> xipfs_infos_file, flags |-> flags,
                                          pos |-> 0],
                        !.rc = "OK", !.ret = 0]
    ELSE OpenResolved(xipfs_path_new(m, name), descp, name, flags)

\* the copy loop of xipfs_read: i bytes copied so far
RECURSIVE ReadLoop(_, _, _, _, _)
ReadLoop(m, descp, i, nbytes, size) ==
    LET d == m.fdesc[descp]
    IN  IF ~(i < nbytes /\ d.pos < size) THEN Drv(m, "OK", i)
        ELSE Bind(xipfs_file_read_8(m, d.filp, d.pos), LAMBDA m1 :
             IF m1.ret < 0 THEN Drv(m1, "EIO", -1)
             ELSE ReadLoop([m1 EXCEPT !.fdesc[descp].pos = @ + 1,
                                      !.data = m.data \o m1.data],
                           descp, i + 1, nbytes, size))

\* the bytes copied out are left in data; the virtual information file is
\* read from RAM and leaves the flash and the page buffer alone
xipfs_read(m, descp, nbytes) ==
    LET d == m.fdesc[descp]
    IN  IF d.filp = xipfs_infos_file THEN Drv(m, "OK", nbytes)
        ELSE Bind(DescGate(m, descp), LAMBDA ret :
        IF ret # "OK" THEN Drv(m, ret, -1)
        ELSE IF "O_WRONLY" \in d.flags THEN Drv(m, "EACCES", -1)
        ELSE Bind(xipfs_file_get_size(m, d.filp), LAMBDA m1 :
        IF m1.ret < 0 THEN Drv(m1, "EIO", -1)
        ELSE ReadLoop([m1 EXCEPT !.data = <<>>], descp, 0, nbytes, m1.ret)))

\* the copy loop of xipfs_write: i bytes of src copied so far
RECURSIVE WriteLoop(_, _, _, _, _)
WriteLoop(m, descp, i, src, max_pos) ==
    LET d == m.fdesc[descp]
    IN  IF ~(i < Len(src) /\ d.pos < max_pos) THEN Drv(m, "OK", i)
        ELSE Bind(xipfs_file_write_8(m, d.filp, d.pos, src[i + 1]), LAMBDA m1 :
             IF m1.ret < 0 THEN Drv(m1, "EIO", -1)
             ELSE WriteLoop([m1 EXCEPT !.fdesc[descp].pos = @ + 1], descp, i + 1, src,
                            max_pos))

xipfs_write(m, descp, src) ==
    LET d == m.fdesc[descp]
    IN  IF xipfs_mp_check # "OK" THEN Drv(m, xipfs_mp_check, -1)
        ELSE Bind(xipfs_file_desc_check(m, descp), LAMBDA ret :
        IF ret # "OK" THEN Drv(m, ret, -1)
        ELSE IF xipfs_file_desc_tracked(m, descp).rc # "OK" THEN Drv(m, "EBADF", -1)
        ELSE IF d.flags \cap {"O_WRONLY", "O_RDWR"} = {} THEN Drv(m, "EACCES", -1)
        ELSE IF d.filp = xipfs_infos_file THEN Drv(m, "EBADF", -1)
        ELSE Bind(xipfs_file_get_max_pos(m, d.filp), LAMBDA m1 :
        IF m1.ret < 0 THEN Drv(m1, "EIO", -1)
        ELSE WriteLoop(m1, descp, 0, src, m1.ret)))

xipfs_fsync(m, descp, pos) ==
    Bind(DescGate(m, descp), LAMBDA ret :
    IF ret # "OK" THEN Drv(m, ret, -1)
    ELSE IF m.fdesc[descp].flags \cap {"O_WRONLY", "O_RDWR"} = {} THEN Drv(m, "EACCES", -1)
    ELSE Bind(xipfs_file_set_size(m, m.fdesc[descp].filp, pos), LAMBDA m1 :
         IF m1.ret < 0 THEN Drv(m1, "EIO", -1) ELSE Drv(m1, "OK", 0)))

xipfs_format(m) ==
    IF xipfs_mp_check # "OK" THEN Drv(m, xipfs_mp_check, -1)
    ELSE Bind(xipfs_fs_format(m), LAMBDA m1 :
         IF m1.ret < 0 THEN Drv(m1, "EIO", -1)
         ELSE Drv(xipfs_desc_untrack_all(m1), "OK", 0))

\* the end of xipfs_unlink and xipfs_rmdir: the record is removed and, when
\* it was the only one of its directory, the directory is kept as an empty
\* directory record
RemoveAndKeepParent(m, x) ==
    Bind(sync_remove_file(m, x.witness), LAMBDA m1 :
    IF m1.ret < 0 THEN Drv(m1, "EIO", -1)
    ELSE Bind(IF x.parent = 1 /\ x.dirname # <<"/">>
              THEN xipfs_fs_new_file(m1, x.dirname, XIPFS_NVM_PAGE_SIZE, 0)
              ELSE Ret(m1, x.witness), LAMBDA m2 :
         IF m2.ret = NULL THEN Drv(m2, "EIO", -1) ELSE Drv(m2, "OK", 0)))

\* the switch of xipfs_unlink on the resolution r of the path
UnlinkResolved(r) ==
    LET x == r.x
    IN  IF r.ret < 0 THEN Drv(r.m, "EIO", -1)
        ELSE IF x.info = XIPFS_PATH_EXISTS_AS_FILE THEN RemoveAndKeepParent(r.m, x)
        ELSE IF x.info \in {XIPFS_PATH_EXISTS_AS_EMPTY_DIR, XIPFS_PATH_EXISTS_AS_NONEMPTY_DIR}
        THEN Drv(r.m, "EISDIR", -1)
        ELSE IF x.info = XIPFS_PATH_INVALID_BECAUSE_NOT_DIRS THEN Drv(r.m, "ENOTDIR", -1)
        ELSE IF x.info \in {XIPFS_PATH_INVALID_BECAUSE_NOT_FOUND, XIPFS_PATH_CREATABLE}
        THEN Drv(r.m, "ENOENT", -1)
        ELSE Drv(r.m, "EIO", -1)

xipfs_unlink(m, name) ==
    IF xipfs_mp_check # "OK" THEN Drv(m, xipfs_mp_check, -1)
    ELSE IF name = <<>> THEN Drv(m, "ENOENT", -1)
    ELSE IF name = <<"/">> THEN Drv(m, "EISDIR", -1)
    ELSE IF strnlen(name, XIPFS_PATH_MAX) = XIPFS_PATH_MAX THEN Drv(m, "ENAMETOOLONG", -1)
    ELSE UnlinkResolved(xipfs_path_new(m, name))

\* the XIPFS_PATH_CREATABLE case of xipfs_mkdir: x1 is the path with its
\* trailing slash
MkdirCreate(m, x1) ==
    Bind(RemoveParentMarker(m, x1, TRUE), LAMBDA m1 :
    IF m1.ret < 0 THEN Drv(m1, "EIO", -1)
    ELSE Bind(xipfs_fs_new_file(m1, x1.path, XIPFS_NVM_PAGE_SIZE, 0), LAMBDA m2 :
         IF m2.ret = NULL THEN Drv(m2, "EIO", -1) ELSE Drv(m2, "OK", 0)))

\* the switch of xipfs_mkdir on the resolution r of the path
MkdirResolved(r) ==
    LET x == r.x
    IN  IF r.ret < 0 THEN Drv(r.m, "EIO", -1)
        ELSE IF x.info \in {XIPFS_PATH_EXISTS_AS_FILE, XIPFS_PATH_EXISTS_AS_EMPTY_DIR,
                            XIPFS_PATH_EXISTS_AS_NONEMPTY_DIR}
        THEN Drv(r.m, "EEXIST", -1)
        ELSE IF x.info = XIPFS_PATH_INVALID_BECAUSE_NOT_DIRS THEN Drv(r.m, "ENOTDIR", -1)
        ELSE IF x.info = XIPFS_PATH_INVALID_BECAUSE_NOT_FOUND THEN Drv(r.m, "ENOENT", -1)
        ELSE IF x.info # XIPFS_PATH_CREATABLE THEN Drv(r.m, "EIO", -1)
        ELSE IF CAt(x.path, x.len - 1) = "/" THEN MkdirCreate(r.m, x)
        ELSE IF x.len = XIPFS_PATH_MAX - 1 THEN Drv(r.m, "ENAMETOOLONG", -1)
        ELSE MkdirCreate(r.m, [x EXCEPT !.path = Append(@, "/"), !.len = @ + 1])

xipfs_mkdir(m, name) ==
    IF xipfs_mp_check # "OK" THEN Drv(m, xipfs_mp_check, -1)
    ELSE IF name = <<>> THEN Drv(m, "ENOENT", -1)
    ELSE IF name = <<"/">> THEN Drv(m, "EEXIST", -1)
    ELSE IF strnlen(name, XIPFS_PATH_MAX) = XIPFS_PATH_MAX THEN Drv(m, "ENAMETOOLONG", -1)
    ELSE MkdirResolved(xipfs_path_new(m, name))

\* the switch of xipfs_rmdir on the resolution r of the path
RmdirResolved(r) ==
    LET x == r.x
    IN  IF r.ret < 0 THEN Drv(r.m, "EIO", -1)
        ELSE IF x.info \in {XIPFS_PATH_EXISTS_AS_FILE, XIPFS_PATH_INVALID_BECAUSE_NOT_DIRS}
        THEN Drv(r.m, "ENOTDIR", -1)
        ELSE IF x.info = XIPFS_PATH_EXISTS_AS_EMPTY_DIR THEN RemoveAndKeepParent(r.m, x)
        ELSE IF x.info = XIPFS_PATH_EXISTS_AS_NONEMPTY_DIR THEN Drv(r.m, "ENOTEMPTY", -1)
        ELSE IF x.info \in {XIPFS_PATH_INVALID_BECAUSE_NOT_FOUND, XIPFS_PATH_CREATABLE}
        THEN Drv(r.m, "ENOENT", -1)
        ELSE Drv(r.m, "EIO", -1)

xipfs_rmdir(m, name) ==
    IF xipfs_mp_check # "OK" THEN Drv(m, xipfs_mp_check, -1)
    ELSE IF name = <<>> THEN Drv(m, "ENOENT", -1)
    ELSE IF name = <<"/">> THEN Drv(m, "EBUSY", -1)
    ELSE IF strnlen(name, XIPFS_PATH_MAX) = XIPFS_PATH_MAX THEN Drv(m, "ENAMETOOLONG", -1)
    ELSE IF CAt(name, Len(name) - 1) = "." THEN Drv(m, "EINVAL", -1)
    ELSE RmdirResolved(xipfs_path_new(m, name))

\* on success ret is st_size and data is <<st_ino, st_blocks>>
\* the switch of xipfs_stat on the resolution r of the path, of length len
StatResolved(r, len) ==
    LET x == r.x
    IN  IF r.ret < 0 THEN Drv(r.m, "EIO", -1)
        ELSE IF x.info = XIPFS_PATH_INVALID_BECAUSE_NOT_DIRS THEN Drv(r.m, "ENOTDIR", -1)
        ELSE IF x.info \in {XIPFS_PATH_INVALID_BECAUSE_NOT_FOUND, XIPFS_PATH_CREATABLE}
        THEN Drv(r.m, "ENOENT", -1)
        ELSE IF x.info \notin {XIPFS_PATH_EXISTS_AS_FILE, XIPFS_PATH_EXISTS_AS_EMPTY_DIR,
                               XIPFS_PATH_EXISTS_AS_NONEMPTY_DIR}
        THEN Drv(r.m, "EIO", -1)
        ELSE IF ~strncmp_eq(PathDec(Field(r.m, x.witness, off_path)), x.path, len)
        THEN Drv(r.m, "ENOENT", -1)
        ELSE Bind(xipfs_file_get_size_(r.m, x.witness), LAMBDA m1 :
             IF m1.ret < 0 THEN Drv(m1, "EIO", -1)
             ELSE [m1 EXCEPT !.rc = "OK",
                             !.data = <<x.witness, Field(m1, x.witness, off_reserved)
                                                      \div XIPFS_NVM_PAGE_SIZE>>])

xipfs_stat(m, path) ==
    IF xipfs_mp_check # "OK" THEN Drv(m, xipfs_mp_check, -1)
    ELSE IF path = <<>> THEN Drv(m, "ENOENT", -1)
    ELSE IF strnlen(path, XIPFS_PATH_MAX) = XIPFS_PATH_MAX THEN Drv(m, "ENAMETOOLONG", -1)
    ELSE StatResolved(xipfs_path_new(m, path), strnlen(path, XIPFS_PATH_MAX))

\* the XIPFS_PATH_CREATABLE case of xipfs_new_file
NewFileCreate(m, x, path, size, exec) ==
    Bind(RemoveParentMarker(m, x, FALSE), LAMBDA m1 :
    IF m1.ret < 0 THEN Drv(m1, "EIO", -1)
    ELSE Bind(xipfs_fs_new_file(m1, path, size, exec), LAMBDA m2 :
         IF m2.ret # NULL THEN Drv(m2, "OK", 0)
         ELSE IF m2.errno \in {"XIPFS_ENOSPACE", "XIPFS_EFULL"} THEN Drv(m2, "EDQUOT", -1)
         ELSE Drv(m2, "EIO", -1)))

\* the switch of xipfs_new_file on the resolution r of the path
NewFileResolved(r, path, size, exec) ==
    LET x == r.x
    IN  IF r.ret < 0 THEN Drv(r.m, "EIO", -1)
        ELSE IF x.info = XIPFS_PATH_EXISTS_AS_FILE THEN Drv(r.m, "EEXIST", -1)
        ELSE IF x.info \in {XIPFS_PATH_EXISTS_AS_EMPTY_DIR, XIPFS_PATH_EXISTS_AS_NONEMPTY_DIR}
        THEN Drv(r.m, "EISDIR", -1)
        ELSE IF x.info = XIPFS_PATH_INVALID_BECAUSE_NOT_DIRS THEN Drv(r.m, "ENOTDIR", -1)
        ELSE IF x.info = XIPFS_PATH_INVALID_BECAUSE_NOT_FOUND THEN Drv(r.m, "ENOENT", -1)
        ELSE IF x.info # XIPFS_PATH_CREATABLE THEN Drv(r.m, "EIO", -1)
        ELSE IF CAt(x.path, x.len - 1) = "/" THEN Drv(r.m, "EISDIR", -1)
        ELSE NewFileCreate(r.m, x, path, size, exec)

xipfs_new_file(m, path, size, exec) ==
    IF xipfs_mp_check # "OK" THEN Drv(m, xipfs_mp_check, -1)
    ELSE IF path = <<>> THEN Drv(m, "ENOENT", -1)
    ELSE IF path = <<"/">> THEN Drv(m, "EISDIR", -1)
    ELSE IF strnlen(path, XIPFS_PATH_MAX) = XIPFS_PATH_MAX THEN Drv(m, "ENAMETOOLONG", -1)
    ELSE IF exec # 0 /\ exec # 1 THEN Drv(m, "EINVAL", -1)
    ELSE NewFileResolved(xipfs_path_new(m, path), path, size, exec)

\* xipfs_opendir once the directory is known to exist: the descriptor is
\* tracked, then filled; len is the length of the resolved path
OpendirTrack(m, descp, dirname, headp, len) ==
    Bind(xipfs_dir_desc_track(m, descp), LAMBDA m1 :
    IF m1.rc # "OK" THEN Drv(m1, m1.rc, -1)
    ELSE Bind([m1 EXCEPT !.ddesc[descp] = [filp |-> headp, dirname |-> dirname]],
         LAMBDA m2 :
         IF CAt(dirname, len - 1) = "/" THEN Drv(m2, "OK", 0)
         ELSE IF len + 1 = XIPFS_PATH_MAX THEN Drv(m2, "ENAMETOOLONG", -1)
         ELSE IF len > Len(dirname) THEN Drv(m2, "OK", 0)
         ELSE Drv([m2 EXCEPT !.ddesc[descp].dirname = Append(dirname, "/")], "OK", 0)))

\* the switch of xipfs_opendir on the resolution r of the path
OpendirResolved(r, descp, dirname, headp) ==
    LET x == r.x
    IN  IF r.ret < 0 THEN Drv(r.m, "EIO", -1)
        ELSE IF x.info \in {XIPFS_PATH_EXISTS_AS_FILE, XIPFS_PATH_INVALID_BECAUSE_NOT_DIRS}
        THEN Drv(r.m, "ENOTDIR", -1)
        ELSE IF x.info \in {XIPFS_PATH_INVALID_BECAUSE_NOT_FOUND, XIPFS_PATH_CREATABLE,
                            XIPFS_PATH_UNDEFINED}
        THEN Drv(r.m, "ENOENT", -1)
        ELSE IF x.info \notin {XIPFS_PATH_EXISTS_AS_EMPTY_DIR,
                               XIPFS_PATH_EXISTS_AS_NONEMPTY_DIR}
        THEN Drv(r.m, "EIO", -1)
        ELSE OpendirTrack(r.m, descp, dirname, headp, x.len)

xipfs_opendir(m, descp, dirname) ==
    IF xipfs_mp_check # "OK" THEN Drv(m, xipfs_mp_check, -1)
    ELSE IF dirname = <<>> THEN Drv(m, "ENOENT", -1)
    ELSE IF strnlen(dirname, XIPFS_PATH_MAX) = XIPFS_PATH_MAX
    THEN Drv(m, "ENAMETOOLONG", -1)
    ELSE Bind(xipfs_fs_head([m EXCEPT !.errno = "XIPFS_OK"]), LAMBDA m1 :
         IF m1.errno # "XIPFS_OK" THEN Drv(m1, "EIO", -1)
         ELSE IF m1.ret = NULL /\ dirname = <<"/">>
         THEN OpendirTrack(m1, descp, <<"/">>, NULL, 1)
         ELSE OpendirResolved(xipfs_path_new(m1, dirname), descp, dirname, m1.ret))

\* the name xipfs_readdir copies from the path fpath, from index j on: the
\* characters up to the end of the path or up to and including the next '/';
\* fail is set when the copy runs to XIPFS_PATH_MAX
RECURSIVE ReaddirName(_, _)
ReaddirName(fpath, j) ==
    IF j >= XIPFS_PATH_MAX THEN [name |-> <<>>, fail |-> TRUE]
    ELSE IF CAt(fpath, j) = NUL THEN [name |-> <<>>, fail |-> FALSE]
    ELSE IF CAt(fpath, j) = "/" THEN [name |-> <<"/">>, fail |-> FALSE]
    ELSE LET rest == ReaddirName(fpath, j + 1)
         IN  [name |-> <<CAt(fpath, j)>> \o rest.name, fail |-> rest.fail]

\* the loop of xipfs_readdir; on success ret is 1 and data the name of the
\* entry, or ret is 0 at the end of the directory
RECURSIVE ReaddirLoop(_, _)
ReaddirLoop(m, descp) ==
    LET filp    == m.ddesc[descp].filp
        dirname == m.ddesc[descp].dirname
        fpath   == PathDec(Field(m, filp, off_path))
        i       == compare_paths(fpath, dirname)    \* the same loop, written inline
        entry   == ReaddirName(fpath, IF CAt(fpath, i) = "/" THEN i + 1 ELSE i)
    IN  IF filp = NULL
        THEN IF m.errno # "XIPFS_OK" THEN Drv(m, "EIO", -1) ELSE Drv(m, "OK", 0)
        ELSE IF i = XIPFS_PATH_MAX THEN Drv(m, "ENAMETOOLONG", -1)
        ELSE Bind(xipfs_fs_next(m, filp), LAMBDA m1 :
             Bind([m1 EXCEPT !.ddesc[descp].filp = m1.ret], LAMBDA m2 :
             IF CAt(dirname, i) # NUL THEN ReaddirLoop(m2, descp)
             ELSE IF entry.fail THEN Drv(m, "ENAMETOOLONG", -1)
             ELSE IF m1.ret = NULL /\ m1.errno # "XIPFS_OK"
             THEN Drv([m2 EXCEPT !.data = entry.name], "EIO", -1)
             ELSE Drv([m2 EXCEPT !.data = entry.name], "OK", 1)))

xipfs_readdir(m, descp) ==
    IF xipfs_mp_check # "OK" THEN Drv(m, xipfs_mp_check, -1)
    ELSE Bind(xipfs_dir_desc_tracked(m, descp), LAMBDA m1 :
         IF m1.rc # "OK" THEN Drv(m1, m1.rc, -1)
         ELSE ReaddirLoop([m1 EXCEPT !.errno = "XIPFS_OK"], descp))

xipfs_closedir(m, descp) ==
    IF xipfs_mp_check # "OK" THEN Drv(m, xipfs_mp_check, -1)
    ELSE Bind(xipfs_dir_desc_tracked(m, descp), LAMBDA m1 :
         IF m1.rc # "OK" THEN Drv(m1, m1.rc, -1)
         ELSE Bind(xipfs_dir_desc_untrack(
                      [m1 EXCEPT !.ddesc[descp] = [filp |-> NULL, dirname |-> <<>>]],
                      descp), LAMBDA m2 :
              IF m2.rc # "OK" THEN Drv(m2, m2.rc, -1) ELSE Drv(m2, "OK", 0)))

\* xipfs_mount without the scan of the cells after the last record
xipfs_mount_noscan(m) ==
    IF xipfs_mp_check # "OK" THEN Drv(m, xipfs_mp_check, -1)
    ELSE Bind(xipfs_fs_tail([m EXCEPT !.errno = "XIPFS_OK"]), LAMBDA m1 :
         IF m1.ret = NULL /\ m1.errno # "XIPFS_OK" THEN Drv(m1, "EIO", -1)
         ELSE Drv(m1, "OK", 0))

xipfs_mount(m) ==
    IF xipfs_mp_check # "OK" THEN Drv(m, xipfs_mp_check, -1)
    ELSE Bind(xipfs_fs_tail([m EXCEPT !.errno = "XIPFS_OK"]), LAMBDA m1 :
         IF m1.ret = NULL /\ m1.errno # "XIPFS_OK" THEN Drv(m1, "EIO", -1)
         ELSE Bind(xipfs_fs_tail_next(m1), LAMBDA m2 :
              IF m2.ret = NULL /\ m2.errno # "XIPFS_OK" THEN Drv(m2, "EIO", -1)
              ELSE IF \E a \in m2.ret..(mp_end - 1) :
                         Peek(m2.nvm, a) # XIPFS_FLASH_ERASE_STATE
              THEN Drv(m2, "EIO", -1)
              ELSE Drv(m2, "OK", 0)))

xipfs_umount(m) ==
    IF xipfs_mp_check # "OK" THEN Drv(m, xipfs_mp_check, -1)
    ELSE Bind(xipfs_desc_untrack_all(m), LAMBDA m1 :
         IF m1.rc # "OK" THEN Drv(m1, m1.rc, -1) ELSE Drv(m1, "OK", 0))

\* the loop of xipfs_fs_rename_all over the records from filp on; counter
\* is the number of records renamed so far, returned in ret
RECURSIVE RenameAllLoop(_, _, _, _, _)
RenameAllLoop(m, filp, from, to, counter) ==
    LET fpath == PathDec(Field(m, filp, off_path))
        path  == SubSeq(to \o SubSeq(fpath, Len(from) + 1, Len(fpath)), 1,
                        Min(Len(to) + Len(fpath) - Len(from), XIPFS_PATH_MAX - 1))
        hit   == strncmp_eq(fpath, from, Len(from))
    IN  Bind(IF hit THEN xipfs_file_rename(m, filp, path) ELSE Ret(m, 0), LAMBDA m1 :
        IF m1.ret < 0 THEN Ret(m1, -1)
        ELSE Bind(xipfs_fs_next(m1, filp), LAMBDA m2 :
             IF m2.ret # NULL
             THEN RenameAllLoop(m2, m2.ret, from, to, counter + (IF hit THEN 1 ELSE 0))
             ELSE IF m2.errno # "XIPFS_OK" THEN Ret(m2, -1)
             ELSE Ret(m2, counter + (IF hit THEN 1 ELSE 0))))

xipfs_fs_rename_all(m, from, to) ==
    IF strnlen(from, XIPFS_PATH_MAX) = XIPFS_PATH_MAX THEN Err(m, "XIPFS_ENULTER", -1)
    ELSE IF strnlen(to, XIPFS_PATH_MAX) = XIPFS_PATH_MAX THEN Err(m, "XIPFS_ENULTER", -1)
    ELSE Bind(xipfs_fs_head([m EXCEPT !.errno = "XIPFS_OK"]), LAMBDA m1 :
         IF m1.ret # NULL THEN RenameAllLoop(m1, m1.ret, from, to, 0)
         ELSE IF m1.errno # "XIPFS_OK" THEN Ret(m1, -1)
         ELSE Ret(m1, 0))

\* the end of xipfs_rename, after renamed records were renamed: the parent
\* of the source is kept as an empty directory record and the empty
\* directory record of the parent of the target is removed
RenameFinish(m, x0, x1, renamed) ==
    Bind(IF x0.parent = renamed /\ x0.dirname # <<"/">>
            /\ ~strcmp_eq(x0.dirname, x1.dirname)
         THEN xipfs_fs_new_file(m, x0.dirname, XIPFS_NVM_PAGE_SIZE, 0)
         ELSE Ret(m, x0.witness), LAMBDA m1 :
    IF m1.ret = NULL THEN Drv(m1, "EIO", -1)
    ELSE IF x1.witness # NULL
            /\ strcmp_eq(PathDec(Field(m1, x1.witness, off_path)), x1.dirname)
    THEN Bind(sync_remove_file(m1, x1.witness), LAMBDA m2 :
         IF m2.ret < 0 THEN Drv(m2, "EIO", -1) ELSE Drv(m2, "OK", 0))
    ELSE Drv(m1, "OK", 0))

\* one record is renamed with xipfs_file_rename
RenameOne(m, x0, x1) ==
    Bind(xipfs_file_rename(m, x0.witness, x1.path), LAMBDA m1 :
    IF m1.ret < 0 THEN Drv(m1, "EIO", -1) ELSE RenameFinish(m1, x0, x1, 1))

\* the records of a directory are renamed with xipfs_fs_rename_all
RenameAll(m, x0, x1) ==
    IF strncmp_eq(x0.path, x1.path, x0.len) THEN Drv(m, "EINVAL", -1)
    ELSE Bind(xipfs_fs_rename_all(m, x0.path, x1.path), LAMBDA m1 :
         IF m1.ret < 0 THEN Drv(m1, "EIO", -1) ELSE RenameFinish(m1, x0, x1, m1.ret))

\* the target of the renaming of a directory, with its trailing slash
RenameSlashed(x1) ==
    IF CAt(x1.path, x1.len - 1) # "/"
    THEN [x1 EXCEPT !.path = Append(@, "/"), !.len = @ + 1] ELSE x1

\* the switch of xipfs_rename on the resolutions x0 of from_path and x1 of
\* to_path
RenameResolved(m, x0, x1) ==
    LET dirs    == {XIPFS_PATH_EXISTS_AS_EMPTY_DIR, XIPFS_PATH_EXISTS_AS_NONEMPTY_DIR}
        toolong == CAt(x1.path, x1.len - 1) # "/" /\ x1.len = XIPFS_PATH_MAX - 1
        known   == {XIPFS_PATH_EXISTS_AS_FILE, XIPFS_PATH_CREATABLE,
                    XIPFS_PATH_INVALID_BECAUSE_NOT_DIRS,
                    XIPFS_PATH_INVALID_BECAUSE_NOT_FOUND} \cup dirs
    IN  IF x0.info = XIPFS_PATH_INVALID_BECAUSE_NOT_DIRS THEN Drv(m, "ENOTDIR", -1)
        ELSE IF x0.info \in {XIPFS_PATH_INVALID_BECAUSE_NOT_FOUND, XIPFS_PATH_CREATABLE}
        THEN Drv(m, "ENOENT", -1)
        ELSE IF x0.info \notin known \/ x1.info \notin known THEN Drv(m, "EIO", -1)
        ELSE IF x1.info = XIPFS_PATH_INVALID_BECAUSE_NOT_DIRS THEN Drv(m, "ENOTDIR", -1)
        ELSE IF x1.info = XIPFS_PATH_INVALID_BECAUSE_NOT_FOUND THEN Drv(m, "ENOENT", -1)
        ELSE IF x0.info = XIPFS_PATH_EXISTS_AS_FILE
        THEN IF x1.info \in dirs THEN Drv(m, "EISDIR", -1)
             ELSE IF x1.info = XIPFS_PATH_EXISTS_AS_FILE /\ x0.witness = x1.witness
             THEN Drv(m, "OK", 0)
             ELSE IF x1.info = XIPFS_PATH_CREATABLE /\ CAt(x1.path, x1.len - 1) = "/"
             THEN Drv(m, "ENOTDIR", -1)
             ELSE RenameOne(m, x0, x1)
        ELSE IF x1.info = XIPFS_PATH_EXISTS_AS_FILE THEN Drv(m, "ENOTDIR", -1)
        ELSE IF x0.info = XIPFS_PATH_EXISTS_AS_EMPTY_DIR
        THEN IF x1.info = XIPFS_PATH_EXISTS_AS_NONEMPTY_DIR THEN Drv(m, "ENOTEMPTY", -1)
             ELSE IF x1.info = XIPFS_PATH_EXISTS_AS_EMPTY_DIR
             THEN IF x0.witness = x1.witness THEN Drv(m, "OK", 0)
                  ELSE RenameOne(m, x0, x1)
             ELSE IF toolong THEN Drv(m, "ENAMETOOLONG", -1)
             ELSE IF strncmp_eq(x0.path, RenameSlashed(x1).path, x0.len)
             THEN Drv(m, "EINVAL", -1)
             ELSE RenameOne(m, x0, RenameSlashed(x1))
        ELSE IF x1.info = XIPFS_PATH_EXISTS_AS_NONEMPTY_DIR THEN Drv(m, "ENOTEMPTY", -1)
        ELSE IF x1.info = XIPFS_PATH_EXISTS_AS_EMPTY_DIR THEN RenameAll(m, x0, x1)
        ELSE IF toolong THEN Drv(m, "ENAMETOOLONG", -1)
        ELSE RenameAll(m, x0, RenameSlashed(x1))

xipfs_rename(m, from_path, to_path) ==
    IF xipfs_mp_check # "OK" THEN Drv(m, xipfs_mp_check, -1)
    ELSE IF from_path = <<>> \/ to_path = <<>> THEN Drv(m, "ENOENT", -1)
    ELSE IF strnlen(from_path, XIPFS_PATH_MAX) = XIPFS_PATH_MAX
            \/ strnlen(to_path, XIPFS_PATH_MAX) = XIPFS_PATH_MAX
    THEN Drv(m, "ENAMETOOLONG", -1)
    ELSE Bind(xipfs_path_new(m, from_path), LAMBDA r0 :
         Bind(xipfs_path_new(r0.m, to_path), LAMBDA r1 :
         IF r0.ret < 0 \/ r1.ret < 0 THEN Drv(r1.m, "EIO", -1)
         ELSE RenameResolved(r1.m, r0.x, r1.x)))

\* data holds <<f_blocks, f_bfree, f_bavail, f_bsize, f_namemax>>
xipfs_statvfs(m) ==
    IF xipfs_mp_check # "OK" THEN Drv(m, xipfs_mp_check, -1)
    ELSE IF xipfs_fs_get_page_number < 0 THEN Drv(m, "EIO", -1)
    ELSE Bind(xipfs_fs_free_pages(m), LAMBDA m1 :
         IF m1.ret < 0 THEN Drv(m1, "EIO", -1)
         ELSE [m1 EXCEPT !.rc = "OK", !.ret = 0,
                         !.data = <<xipfs_fs_get_page_number, m1.ret, m1.ret,
                                    XIPFS_NVM_PAGE_SIZE, XIPFS_PATH_MAX>>])

\* the checks of xipfs_execv and xipfs_safe_execv on the path; data holds
\* the record found
xipfs_execv_check(m, path) ==
    IF xipfs_mp_check # "OK" THEN Drv(m, xipfs_mp_check, -1)
    ELSE IF path = <<>> THEN Drv(m, "ENOENT", -1)
    ELSE IF path = <<"/">> THEN Drv(m, "EISDIR", -1)
    ELSE IF strnlen(path, XIPFS_PATH_MAX) = XIPFS_PATH_MAX THEN Drv(m, "ENAMETOOLONG", -1)
    ELSE Bind(xipfs_path_new(m, path), LAMBDA r :
         IF r.ret < 0 THEN Drv(r.m, "EIO", -1)
         ELSE IF r.x.info \in {XIPFS_PATH_EXISTS_AS_EMPTY_DIR,
                               XIPFS_PATH_EXISTS_AS_NONEMPTY_DIR}
         THEN Drv(r.m, "EISDIR", -1)
         ELSE IF r.x.info = XIPFS_PATH_INVALID_BECAUSE_NOT_DIRS THEN Drv(r.m, "ENOTDIR", -1)
         ELSE IF r.x.info \in {XIPFS_PATH_INVALID_BECAUSE_NOT_FOUND, XIPFS_PATH_CREATABLE}
         THEN Drv(r.m, "ENOENT", -1)
         ELSE IF r.x.info # XIPFS_PATH_EXISTS_AS_FILE THEN Drv(r.m, "EIO", -1)
         ELSE IF Field(r.m, r.x.witness, off_exec) = 0 THEN Drv(r.m, "EACCES", -1)
         ELSE IF Field(r.m, r.x.witness, off_exec) # 1 THEN Drv(r.m, "EINVAL", -1)
         ELSE [r.m EXCEPT !.rc = "OK", !.ret = 0, !.data = <<r.x.witness>>])

\* xipfs_file_exec up to the branch to the binary: ret is 0 when the binary
\* is entered
xipfs_file_exec(m, filp) ==
    Bind(xipfs_file_filp_check(m, filp), LAMBDA m1 :
    IF m1.ret < 0 THEN Ret(m1, -1) ELSE Ret(m1, 0))

\* xipfs_execv up to the branch to the binary
xipfs_execv(m, path) ==
    Bind(xipfs_execv_check(m, path), LAMBDA m1 :
    IF m1.rc # "OK" THEN m1
    ELSE Bind(xipfs_file_exec(m1, m1.data[1]), LAMBDA m2 :
         IF m2.ret < 0 THEN Drv(m2, "EIO", -1) ELSE m2))

(***************************************************************************)
(* The state machine.  nvm is the flash of the mount point, xipfs_buf the  *)
(* page buffer, open_desc the table of tracked descriptors, file_desc and  *)
(* dir_desc the descriptor structures owned by the caller.  last records   *)
(* the last driver call and its result, nops counts the calls made and     *)
(* nfails counts those that failed: a run of calls is followed up to its   *)
(* first failing call.  desc_rec is a                                      *)
(* history variable: for each file descriptor, the address at which the    *)
(* record it was opened on now lies (NULL once closed or once that record  *)
(* is gone), following the record as compaction slides it down.            *)
(***************************************************************************)
VARIABLES nvm, xipfs_buf, xipfs_errno, open_desc, file_desc, dir_desc, last, nops, nfails,
          desc_rec, thread, mutex, execution_mutex

vars == <<nvm, xipfs_buf, xipfs_errno, open_desc, file_desc, dir_desc, last, nops, nfails,
          desc_rec, thread, mutex, execution_mutex>>

\* the threads of the host, and a thread that is in no driver call
Threads == {1, 2}
idle == [op |-> "none", desc |-> 0, p |-> <<>>, src |-> <<>>, i |-> 0, max_pos |-> 0,
         filp |-> NULL]

\* the inputs of the calls
Paths == {<<"/", "a">>, <<"/", "b">>}
Sizes == {1, PagePayload + 1}
Execs == {0, 1}
Sources == {<<2>>, <<1, 2>>}
FlagSets == {{}, {"O_RDWR"}, {"O_WRONLY", "O_CREAT"}}
Offsets == {0}
Positions == {1, 2}
Counts == {2}

file_desc_init == [d \in FileDescs |-> [filp |-> NULL, flags |-> {}, pos |-> 0]]
dir_desc_init == [d \in DirDescs |-> [filp |-> NULL, dirname |-> <<>>]]
last_init == [op |-> "none", desc |-> 0, path |-> <<>>, rc |-> "OK", ret |-> 0,
              data |-> <<>>, removed |-> <<>>]

\* the machine state before a call
Machine == [nvm |-> nvm, buf |-> xipfs_buf, errno |-> xipfs_errno,
            open_desc |-> open_desc, fdesc |-> file_desc, ddesc |-> dir_desc,
            ret |-> 0, rc |-> "OK", data |-> <<>>, removed |-> <<>>,
            fuel |-> -1, log |-> <<>>]

\* where a record found at address g lies after the removals in rm
RECURSIVE Slide(_, _)
Slide(g, rm) ==
    IF rm = <<>> \/ g = NULL THEN g
    ELSE IF g = Head(rm).filp THEN NULL
    ELSE IF g > Head(rm).filp THEN Slide(g - Head(rm).reserved, Tail(rm))
    ELSE Slide(g, Tail(rm))

DescRecAfter(op, descp, m) ==
    [d \in FileDescs |->
        IF m.rc = "OK" /\ op = "format" THEN NULL
        ELSE IF m.rc = "OK" /\ op = "close" /\ d = descp THEN NULL
        ELSE IF m.rc = "OK" /\ op = "open" /\ d = descp THEN m.fdesc[d].filp
        ELSE Slide(desc_rec[d], m.removed)]

\* the machine state after a call becomes the next state
Commit(op, descp, path, m) ==
    /\ nops < MaxOps
    /\ nfails < MaxFails
    /\ nvm' = m.nvm
    /\ xipfs_buf' = m.buf
    /\ xipfs_errno' = m.errno
    /\ open_desc' = m.open_desc
    /\ file_desc' = m.fdesc
    /\ dir_desc' = m.ddesc
    /\ last' = [op |-> op, desc |-> descp, path |-> path, rc |-> m.rc, ret |-> m.ret,
                data |-> m.data, removed |-> m.removed]
    /\ nops' = nops + 1
    /\ nfails' = nfails + (IF m.rc = "OK" THEN 0 ELSE 1)
    /\ desc_rec' = DescRecAfter(op, descp, m)
    /\ UNCHANGED <<thread, mutex, execution_mutex>>

\* the machine right after start-up on an erased flash
Fresh == [nvm |-> [a \in MountCells |-> XIPFS_FLASH_ERASE_STATE],
          buf |-> xipfs_buf_init, errno |-> "XIPFS_OK",
          open_desc |-> open_desc_init, fdesc |-> file_desc_init, ddesc |-> dir_desc_init,
          ret |-> 0, rc |-> "OK", data |-> <<>>, removed |-> <<>>,
            fuel |-> -1, log |-> <<>>]

\* the files an earlier session may have left on the flash: /a on one page
\* with one byte written to it, and /b on two pages, which fill the mount
\* point
EarlierFiles == << [path |-> <<"/", "a">>, size |-> 1, bytes |-> <<1>>],
                   [path |-> <<"/", "b">>, size |-> PagePayload + 1, bytes |-> <<>>] >>

\* the earlier session creates a file, then opens it, writes to it and
\* closes it
Store(m, file) ==
    Bind(xipfs_new_file(m, file.path, file.size, 0), LAMBDA m1 :
    IF file.bytes = <<>> THEN m1
    ELSE xipfs_close(xipfs_write(xipfs_open(m1, 1, file.path, {"O_RDWR"}), 1, file.bytes), 1))

RECURSIVE Populate(_, _)
Populate(m, files) ==
    IF files = <<>> THEN m
    ELSE Populate(Store(m, Head(files)), Tail(files))

\* the flash contents found at mount time
Layouts == {Populate(Fresh, SubSeq(EarlierFiles, 1, k)).nvm : k \in 0..Len(EarlierFiles)}

\* xipfs_mount leaves the flash as it finds it; the page buffer and the
\* descriptor table are in their start-up state
Init ==
    /\ nvm \in Layouts
    /\ xipfs_buf = xipfs_buf_init
    /\ xipfs_errno = "XIPFS_OK"
    /\ open_desc = open_desc_init
    /\ file_desc = file_desc_init
    /\ dir_desc = dir_desc_init
    /\ last = last_init
    /\ nops = 0
    /\ nfails = 0
    /\ desc_rec = [d \in FileDescs |-> NULL]
    /\ thread = [t \in Threads |-> idle]
    /\ mutex = NULL
    /\ execution_mutex = NULL

Format == Commit("format", 0, <<>>, xipfs_format(Machine))

NewFile == \E path \in Paths, size \in Sizes, exec \in Execs :
    Commit("new_file", 0, path, xipfs_new_file(Machine, path, size, exec))

Open == \E descp \in FileDescs, path \in Paths, flags \in FlagSets :
    Commit("open", descp, path, xipfs_open(Machine, descp, path, flags))

Close == \E descp \in FileDescs :
    Commit("close", descp, <<>>, xipfs_close(Machine, descp))

Read == \E descp \in FileDescs, nbytes \in Counts :
    Commit("read", descp, <<>>, xipfs_read(Machine, descp, nbytes))

Write == \E descp \in FileDescs, src \in Sources :
    Commit("write", descp, <<>>, xipfs_write(Machine, descp, src))

Lseek == \E descp \in FileDescs, off \in Offsets, whence \in {"SEEK_SET", "SEEK_END"} :
    Commit("lseek", descp, <<>>, xipfs_lseek(Machine, descp, off, whence))

Fsync == \E descp \in FileDescs, pos \in Positions :
    Commit("fsync", descp, <<>>, xipfs_fsync(Machine, descp, pos))

Fstat == \E descp \in FileDescs :
    Commit("fstat", descp, <<>>, xipfs_fstat(Machine, descp))

Stat == \E path \in Paths :
    Commit("stat", 0, path, xipfs_stat(Machine, path))

Unlink == \E path \in Paths :
    Commit("unlink", 0, path, xipfs_unlink(Machine, path))

Mkdir == \E path \in Paths :
    Commit("mkdir", 0, path, xipfs_mkdir(Machine, path))

Rmdir == \E path \in Paths :
    Commit("rmdir", 0, path, xipfs_rmdir(Machine, path))

\* the sizes given to xipfs_file_set_size, and the sequences of them that a
\* record's size list takes without wrapping
SizeVals == 0..2
SizeSeqs == UNION {[1..n -> SizeVals] : n \in 1..(XIPFS_FILESIZE_SLOT_MAX - 1)}

\* xipfs_file_set_size(filp, s) then xipfs_file_get_size(filp) for each s of
\* seq in turn; data collects <<the sizes given, the sizes read back>>
RECURSIVE SetGetLoop(_, _, _, _, _)
SetGetLoop(m, filp, seq, given, seen) ==
    IF seq = <<>> THEN [m EXCEPT !.rc = "OK", !.ret = 0, !.data = <<given, seen>>]
    ELSE Bind(xipfs_file_set_size(m, filp, Head(seq)), LAMBDA m1 :
         IF m1.ret < 0 THEN [m1 EXCEPT !.rc = "EIO", !.ret = 0, !.data = <<given, seen>>]
         ELSE Bind(xipfs_file_get_size(m1, filp), LAMBDA m2 :
              SetGetLoop(m2, filp, Tail(seq), Append(given, Head(seq)),
                         Append(seen, m2.ret))))

\* a record is created by xipfs_new_file and its size set and read back
SetSizesOn(m, path, size, seq) ==
    Bind(xipfs_new_file(m, path, size, 0), LAMBDA m1 :
    IF m1.rc # "OK" THEN [m1 EXCEPT !.ret = -1, !.data = <<seq, <<>>>>]
    ELSE SetGetLoop(m1, xipfs_fs_tail(m1).ret, seq, <<>>, <<>>))

SetSizes == \E path \in Paths, size \in Sizes, seq \in SizeSeqs :
    Commit("set_sizes", 0, path, SetSizesOn(Machine, path, size, seq))

Next ==
    \/ Format
    \/ NewFile
    \/ Open
    \/ Close
    \/ Read
    \/ Write
    \/ Lseek
    \/ Fsync
    \/ Fstat
    \/ Stat
    \/ Unlink
    \/ Mkdir
    \/ Rmdir

(***************************************************************************)
(* Observers used by the properties                                        *)
(***************************************************************************)
\* the records visited from xipfs_fs_head by repeated xipfs_fs_next
RECURSIVE ChainFrom(_, _)
ChainFrom(m, filp) ==
    LET n == xipfs_fs_next(m, filp).ret
    IN  <<filp>> \o (IF n = NULL THEN <<>> ELSE ChainFrom(m, n))

Chain(m) ==
    LET h == xipfs_fs_head(m).ret
    IN  IF h = NULL THEN <<>> ELSE ChainFrom(m, h)

\* the walk ends without a layout error
WalkClean(m) == xipfs_fs_tail([m EXCEPT !.errno = "XIPFS_OK"]).errno = "XIPFS_OK"

Reserved(m, filp) == Field(m, filp, off_reserved)
SelfRef(m, filp) == Field(m, filp, off_next) = filp
ChainTail(m) == Chain(m)[Len(Chain(m))]
MountPagesSet == xipfs_nvm_page(mp_page_addr) .. (xipfs_nvm_page(mp_end) - 1)

\* C1: the record chain is well formed -- the walk from the head ends
\* without a layout error, visits page-aligned records at strictly
\* increasing addresses, each record's next is the end of its reserved span
\* or (at the tail only) the record itself, and the spans lie inside the
\* mount point.
C1_ChainWellFormed ==
    LET m  == Machine
        ch == Chain(m)
    IN  /\ WalkClean(m)
        /\ \A k \in 1..Len(ch) :
              /\ xipfs_flash_page_aligned(ch[k])
              /\ InMount(ch[k])
              /\ Reserved(m, ch[k]) > 0
              /\ ch[k] + Reserved(m, ch[k]) <= mp_end
              /\ \/ Field(m, ch[k], off_next) = ch[k] + Reserved(m, ch[k])
                 \/ SelfRef(m, ch[k]) /\ k = Len(ch)
              /\ k < Len(ch) => ch[k + 1] = ch[k] + Reserved(m, ch[k])

\* C2: when every call so far succeeded and the chain is well formed, each
\* page of the mount point past the end of the tail's reserved span is erased.
C2_PastTailErased ==
    (nfails = 0 /\ C1_ChainWellFormed /\ Chain(Machine) # <<>>) =>
        \A page \in MountPagesSet :
            xipfs_nvm_addr(page) >= ChainTail(Machine) + Reserved(Machine, ChainTail(Machine))
                => xipfs_flash_is_erased_page(nvm, page)

\* what identifies a record apart from its address: path, size slots, exec
\* flag and the payload cells of its reserved span
RecordImage(m, filp) ==
    [path |-> Field(m, filp, off_path),
     exec |-> Field(m, filp, off_exec),
     size |-> [i \in 0..(XIPFS_FILESIZE_SLOT_MAX - 1) |-> Field(m, filp, off_size + i)],
     reserved |-> Reserved(m, filp),
     payload |-> [k \in 0..(Reserved(m, filp) - sizeof_xipfs_file_t - 1) |->
                     Field(m, filp, off_buf + k)]]

\* the flash as xipfs_fs_remove finds it (sync_remove_file flushes first),
\* and the flash after the step
PreRemove == xipfs_buffer_flush(Machine)
PostStep == [Machine EXCEPT !.nvm = nvm']
Removed == last'.removed[1]
RemovalStep == last'.rc = "OK" /\ Len(last'.removed) = 1

\* C3: a successful removal of record R leaves every other record with its
\* path, payload, size slots and exec flag, at its address when below R and
\* R.reserved lower when above R.
C3_RemoveKeepsOthers ==
    [][(RemovalStep /\ WalkClean(PreRemove)) =>
          \A k \in 1..Len(Chain(PreRemove)) :
             LET S == Chain(PreRemove)[k]
             IN  S # Removed.filp =>
                    RecordImage(PostStep, IF S > Removed.filp THEN S - Removed.reserved ELSE S)
                       = RecordImage(PreRemove, S)]_vars

TrackedFiles(tab) == {tab[i].addr : i \in {j \in 1..XIPFS_MAX_OPEN_DESC : tab[j].type = DESC_FILE}}
ChainSet(m) == {Chain(m)[k] : k \in 1..Len(Chain(m))}

\* C4: when the driver removes record R, a tracked descriptor on a record
\* above R moves down by R.reserved, one on a record below R is unchanged,
\* and afterwards every tracked descriptor designates a live record or the
\* virtual file.
C4_DescriptorsFollow ==
    [][RemovalStep =>
          /\ \A d \in TrackedFiles(open_desc) :
                /\ (InMount(file_desc[d].filp) /\ file_desc[d].filp > Removed.filp) =>
                      file_desc'[d] = [file_desc[d] EXCEPT
                                          !.filp = file_desc[d].filp - Removed.reserved]
                /\ (InMount(file_desc[d].filp) /\ file_desc[d].filp < Removed.filp) =>
                      file_desc'[d] = file_desc[d]
          /\ \A d \in TrackedFiles(open_desc') :
                file_desc'[d].filp \in ChainSet(PostStep) \cup {xipfs_infos_file}]_vars

\* C5: when the driver removes record R, every descriptor opened on R is
\* no longer tracked afterwards.
C5_RemovedUntracked ==
    [][RemovalStep =>
          \A d \in FileDescs :
             desc_rec[d] = Removed.filp => d \notin TrackedFiles(open_desc')]_vars

FreePages(m) == xipfs_fs_free_pages(m).ret

\* C6: unlink on a full file system (tail self-referential) leaves a chain
\* whose tail is not self-referential and raises the free pages by the
\* pages of the removed record.
C6_UnlinkRestoresCapacity ==
    [][(/\ RemovalStep
        /\ last'.op = "unlink"
        /\ WalkClean(PreRemove)
        /\ SelfRef(PreRemove, ChainTail(PreRemove))) =>
          /\ WalkClean(PostStep)
          /\ Chain(PostStep) = <<>> \/ ~SelfRef(PostStep, ChainTail(PostStep))
          /\ FreePages(PostStep) = FreePages(PreRemove)
                                     + Removed.reserved \div XIPFS_NVM_PAGE_SIZE]_vars

\* the pages a file of the given size needs, and the free pages left past
\* the tail's reserved span
NeededPages(size) ==
    IF size > 0
    THEN (size + sizeof_xipfs_file_t + XIPFS_NVM_PAGE_SIZE - 1) \div XIPFS_NVM_PAGE_SIZE
    ELSE 1
AppendAddr(m) ==
    IF Chain(m) = <<>> THEN mp_page_addr ELSE ChainTail(m) + Reserved(m, ChainTail(m))
FreeBySpan(m) == (mp_end - AppendAddr(m)) \div XIPFS_NVM_PAGE_SIZE
Full(m) == Chain(m) # <<>> /\ SelfRef(m, ChainTail(m))
Creatable(m, path) == xipfs_path_new(m, path).x.info = XIPFS_PATH_CREATABLE

\* C7: on a well-formed chain with f free pages, xipfs_fs_new_file needing r
\* pages appends the record past the tail with next = address + reserved
\* when r < f, with next = its own address and no free page left when
\* r = f, and fails with NoSpace (r > f) or Full (tail self-referential)
\* leaving flash and page buffer as they were, so that the failure repeats;
\* xipfs_new_file and xipfs_open report these failures as EDQUOT.
C7_NewFileBySpace ==
    C1_ChainWellFormed =>
      LET m    == Machine
          at   == AppendAddr(m)
          f    == (mp_end - at) \div XIPFS_NVM_PAGE_SIZE
          full == Full(m)
      IN  \A path \in Paths :
            LET cr == Creatable(m, path)
            IN  \A size \in Sizes \cup {0}, exec \in Execs :
                  LET res == xipfs_fs_new_file(m, path, size, exec)
                      r   == NeededPages(size)
                      drv == xipfs_new_file(m, path, size, exec)
                  IN  /\ (~full /\ r < f) =>
                           /\ res.ret = at
                           /\ Reserved(res, at) = r * XIPFS_NVM_PAGE_SIZE
                           /\ Field(res, at, off_next) = at + Reserved(res, at)
                      /\ (~full /\ r = f) =>
                           /\ res.ret = at
                           /\ Reserved(res, at) = r * XIPFS_NVM_PAGE_SIZE
                           /\ Field(res, at, off_next) = at
                           /\ FreePages(res) = 0
                      /\ (full \/ r > f) =>
                           /\ res.ret = NULL
                           /\ res.errno = (IF full THEN "XIPFS_EFULL" ELSE "XIPFS_ENOSPACE")
                           /\ res.nvm = m.nvm /\ res.buf = m.buf
                           /\ cr => (drv.rc = "EDQUOT" /\ drv.nvm = m.nvm)
                           /\ (cr /\ full /\ size = 0) =>
                                 \A descp \in FileDescs :
                                    xipfs_open(m, descp, path, {"O_WRONLY", "O_CREAT"}).rc
                                       = "EDQUOT"

\* a new_file call has just filled the mount point (r = f)
C7_Witness ==
    /\ last.op = "new_file" /\ last.rc = "OK"
    /\ C1_ChainWellFormed /\ Full(Machine) /\ FreeBySpan(Machine) = 0
    /\ nops > 0


\* C9: on a record just created, the sizes read back by xipfs_file_get_size
\* after each of up to XIPFS_FILESIZE_SLOT_MAX - 1 calls of
\* xipfs_file_set_size are, in order, the sizes given: every call succeeds
\* and the k-th size read is the k-th size set.
C9_SizesInOrder ==
    (last.op = "set_sizes" /\ last.ret = 0) =>
        /\ last.rc = "OK"
        /\ Len(last.data[1]) \in 1..(XIPFS_FILESIZE_SLOT_MAX - 1)
        /\ last.data[2] = last.data[1]

\* a record was created and took a full sequence of different sizes
C9_Witness ==
    /\ last.op = "set_sizes" /\ last.ret = 0 /\ last.rc = "OK"
    /\ Len(last.data[2]) = XIPFS_FILESIZE_SLOT_MAX - 1
    /\ last.data[2][1] # last.data[2][Len(last.data[2])]
    /\ nops > 1

\* records are created with their sizes set, and removed
\* a descriptor tracked with O_RDWR on a live record that has room for src
\* at the descriptor's position
CanRoundTrip(m, descp, src) ==
    LET d == m.fdesc[descp]
    IN  /\ descp \in TrackedFiles(m.open_desc)
        /\ "O_RDWR" \in d.flags
        /\ d.filp \in ChainSet(m)
        /\ Reserved(m, d.filp) >= sizeof_xipfs_file_t + d.pos + Len(src)

\* xipfs_lseek back to offset o, then xipfs_read of n bytes
ReadBack(m, descp, o, n) ==
    Bind(xipfs_lseek(m, descp, o, "SEEK_SET"), LAMBDA s :
    IF s.rc # "OK" THEN s ELSE xipfs_read(s, descp, n))

\* xipfs_close, then xipfs_open of the same file, then the read at o
ReopenReadBack(m, descp, path, o, n) ==
    Bind(xipfs_close(m, descp), LAMBDA c :
    IF c.rc # "OK" THEN c
    ELSE Bind(xipfs_open(c, descp, path, {"O_RDWR"}), LAMBDA r :
         IF r.rc # "OK" THEN r ELSE ReadBack(r, descp, o, n)))

\* the calls made on another descriptor between the write and the read
Between(m, other) ==
    {xipfs_read(m, other, n) : n \in Counts} \cup {xipfs_write(m, other, src) : src \in Sources}

ReadGives(r, src) == r.rc = "OK" /\ r.ret = Len(src) /\ r.data = src

\* C8: bytes written by xipfs_write at the position of an O_RDWR descriptor,
\* on a file with room for them, are returned by xipfs_read at that offset
\* after xipfs_lseek back on the same descriptor, after a call on another
\* file's descriptor in between, and after close and reopen.
C8_WriteThenRead ==
    LET m == Machine
    IN  \A descp \in FileDescs, src \in Sources :
          CanRoundTrip(m, descp, src) =>
            LET o    == m.fdesc[descp].pos
                filp == m.fdesc[descp].filp
                path == PathDec(Field(m, filp, off_path))
                w    == xipfs_write(m, descp, src)
            IN  (w.rc = "OK" /\ w.ret = Len(src)) =>
                  /\ ReadGives(ReadBack(w, descp, o, Len(src)), src)
                  /\ \A other \in FileDescs \ {descp} :
                        (w.fdesc[other].filp # filp) =>
                           \A b \in Between(w, other) :
                              ReadGives(ReadBack(b, descp, o, Len(src)), src)
                  /\ ReadGives(ReopenReadBack(w, descp, path, o, Len(src)), src)

\* fsync(k) on the descriptor for k = from, from + 1, ..., upto
RECURSIVE FsyncRun(_, _, _, _)
FsyncRun(m, descp, from, upto) ==
    IF from > upto THEN Drv(m, "OK", 0)
    ELSE Bind(xipfs_fsync(m, descp, from), LAMBDA f :
         IF f.rc # "OK" THEN f ELSE FsyncRun(f, descp, from + 1, upto))

\* a descriptor tracked for writing on a live record, at a position that
\* is not past the last size given
CanFsyncRun(m, descp, upto) ==
    LET d == m.fdesc[descp]
    IN  /\ descp \in TrackedFiles(m.open_desc)
        /\ d.flags \cap {"O_WRONLY", "O_RDWR"} # {}
        /\ d.filp \in ChainSet(m)
        /\ d.pos <= upto

StatGives(r, size) == r.rc = "OK" /\ r.ret = size

\* xipfs_close, then xipfs_open of the same file, then xipfs_stat
ReopenStat(m, descp, path) ==
    Bind(xipfs_close(m, descp), LAMBDA c :
    IF c.rc # "OK" THEN c
    ELSE Bind(xipfs_open(c, descp, path, {"O_RDWR"}), LAMBDA r :
         IF r.rc # "OK" THEN r ELSE xipfs_stat(r, path)))

\* C10: after XIPFS_FILESIZE_SLOT_MAX + 1 successful fsync(k), k = 1, 2, ...,
\* on a writable descriptor, xipfs_stat of the file reports the last k, and
\* reports it again after the descriptor is closed and the file reopened.
C10_FsyncSizeKept ==
    LET m == Machine
        n == XIPFS_FILESIZE_SLOT_MAX + 1
    IN  \A descp \in FileDescs :
          CanFsyncRun(m, descp, n) =>
            LET path == PathDec(Field(m, m.fdesc[descp].filp, off_path))
                f    == FsyncRun(m, descp, 1, n)
            IN  f.rc = "OK" =>
                  /\ StatGives(xipfs_stat(f, path), n)
                  /\ StatGives(ReopenStat(f, descp, path), n)

NextSize == SetSizes \/ Unlink
SpecSize == Init /\ [][NextSize]_vars

\* the operations that allocate and release records, and those that leave a
\* page in the page buffer
NextAlloc == Format \/ NewFile \/ Open \/ Write \/ Unlink
SpecAlloc == Init /\ [][NextAlloc]_vars

Spec == Init /\ [][Next]_vars

(***************************************************************************)
(* The directory tree.  The same calls on paths of several components,     *)
(* started on an erased mount point, with the directory operations.        *)
(***************************************************************************)
TreePaths == {<<"/", "a">>, <<"/", "a", "b">>, <<"/", "a", "/", "b">>,
              <<"/", "a", "/", "a", "a">>}
TreeDirs == {<<"/">>, <<"/", "a">>}
RenameFroms == {<<"/", "a">>, <<"/", "a", "/", "b">>}
RenameTos == {<<"/", "a", "b">>, <<"/", "b">>}

InitTree == Init /\ nvm = Fresh.nvm

NewFileTree == \E path \in TreePaths :
    Commit("new_file", 0, path, xipfs_new_file(Machine, path, 1, 0))

MkdirTree == \E path \in TreePaths :
    Commit("mkdir", 0, path, xipfs_mkdir(Machine, path))

UnlinkTree == \E path \in TreePaths :
    Commit("unlink", 0, path, xipfs_unlink(Machine, path))

RmdirTree == \E path \in TreePaths :
    Commit("rmdir", 0, path, xipfs_rmdir(Machine, path))

Rename == \E from_path \in RenameFroms, to_path \in RenameTos :
    Commit("rename", 0, <<from_path, to_path>>, xipfs_rename(Machine, from_path, to_path))

Opendir == \E descp \in DirDescs, dirname \in TreeDirs :
    Commit("opendir", descp, dirname, xipfs_opendir(Machine, descp, dirname))

Readdir == \E descp \in DirDescs :
    Commit("readdir", descp, <<>>, xipfs_readdir(Machine, descp))

Closedir == \E descp \in DirDescs :
    Commit("closedir", descp, <<>>, xipfs_closedir(Machine, descp))

Mount == Commit("mount", 0, <<>>, xipfs_mount(Machine))

Umount == Commit("umount", 0, <<>>, xipfs_umount(Machine))

NextTree ==
    \/ NewFileTree
    \/ MkdirTree
    \/ UnlinkTree
    \/ RmdirTree
    \/ Rename
    \/ Opendir
    \/ Readdir
    \/ Closedir
    \/ Format
    \/ Mount
    \/ Umount

SpecTree == InitTree /\ [][NextTree]_vars

(***************************************************************************)
(* Mounting, on a flash that earlier calls have written.                   *)
(***************************************************************************)
NextMount == Format \/ NewFile \/ Open \/ Write \/ Unlink \/ Mount
SpecMount == Init /\ [][NextMount]_vars

(***************************************************************************)
(* The driver called by two threads of the host.  The driver functions     *)
(* take no lock: the mount structure carries the two mutexes of the host   *)
(* and no function of the driver locks or unlocks either.  A call is        *)
(* entered by a thread and finished in a later step; a write is made one   *)
(* iteration of its loop at a time; an execution is entered and left when  *)
(* the binary exits.  Steps of the two threads alternate freely.           *)
(***************************************************************************)
MaxSteps == 7
ThreadPath == <<"/", "a">>
ThreadDesc == CHOOSE d \in FileDescs : TRUE
ThreadCalls == {"new_file", "open", "unlink", "format"}

InitThreads == Init /\ nvm = Fresh.nvm

\* the state after a step of thread t that leaves the machine as m and the
\* thread as th; the call has returned when th is idle
ThreadStep(t, op, m, th) ==
    /\ nops < MaxSteps
    /\ nfails < MaxFails
    /\ nvm' = m.nvm
    /\ xipfs_buf' = m.buf
    /\ xipfs_errno' = m.errno
    /\ open_desc' = m.open_desc
    /\ file_desc' = m.fdesc
    /\ dir_desc' = m.ddesc
    /\ last' = IF th # idle THEN last
               ELSE [op |-> op, desc |-> ThreadDesc, path |-> ThreadPath, rc |-> m.rc,
                     ret |-> m.ret, data |-> m.data, removed |-> m.removed]
    /\ nops' = nops + 1
    /\ nfails' = nfails + (IF th = idle /\ m.rc # "OK" THEN 1 ELSE 0)
    /\ desc_rec' = IF th # idle THEN desc_rec ELSE DescRecAfter(op, ThreadDesc, m)
    /\ thread' = [thread EXCEPT ![t] = th]
    /\ UNCHANGED <<mutex, execution_mutex>>

\* the body of a call other than write and execv
ThreadApply(m, op) ==
    CASE op = "new_file" -> xipfs_new_file(m, ThreadPath, 1, 1)
      [] op = "open" -> xipfs_open(m, ThreadDesc, ThreadPath, {"O_RDWR"})
      [] op = "unlink" -> xipfs_unlink(m, ThreadPath)
      [] op = "format" -> xipfs_format(m)

\* a thread enters a driver call: xipfs_mp_check passes
Enter(t) == \E op \in ThreadCalls :
    /\ thread[t] = idle
    /\ xipfs_mp_check = "OK"
    /\ ThreadStep(t, op, Machine, [idle EXCEPT !.op = op])

\* the call runs to its return
Finish(t) ==
    /\ thread[t].op \in ThreadCalls
    /\ ThreadStep(t, thread[t].op, ThreadApply(Machine, thread[t].op), idle)

\* xipfs_write up to its loop
WriteEnter(t) == \E src \in Sources :
    /\ thread[t] = idle
    /\ LET r == xipfs_write(Machine, ThreadDesc, <<>>)
       IN  IF r.rc # "OK" THEN ThreadStep(t, "write", r, idle)
           ELSE ThreadStep(t, "write", r,
                    [idle EXCEPT !.op = "write", !.desc = ThreadDesc, !.src = src,
                        !.max_pos = xipfs_file_get_max_pos(Machine,
                                        file_desc[ThreadDesc].filp).ret])

\* one iteration of the loop of xipfs_write, or its return
WriteStep(t) ==
    /\ thread[t].op = "write"
    /\ LET th == thread[t]
           d == file_desc[th.desc]
       IN  IF ~(th.i < Len(th.src) /\ d.pos < th.max_pos)
           THEN ThreadStep(t, "write", Drv(Machine, "OK", th.i), idle)
           ELSE Bind(xipfs_file_write_8(Machine, d.filp, d.pos, th.src[th.i + 1]),
                LAMBDA m1 :
                IF m1.ret < 0 THEN ThreadStep(t, "write", Drv(m1, "EIO", -1), idle)
                ELSE ThreadStep(t, "write",
                         [m1 EXCEPT !.fdesc[th.desc].pos = @ + 1],
                         [th EXCEPT !.i = @ + 1]))

\* xipfs_execv up to the branch to the entry point of the binary
ExecvEnter(t) ==
    /\ thread[t] = idle
    /\ LET r == xipfs_execv(Machine, ThreadPath)
       IN  IF r.rc # "OK" THEN ThreadStep(t, "execv", r, idle)
           ELSE ThreadStep(t, "execv", r,
                    [idle EXCEPT !.op = "execv", !.filp = r.data[1]])

\* the binary exits and xipfs_execv returns
ExecvExit(t) ==
    /\ thread[t].op = "execv"
    /\ ThreadStep(t, "execv", Drv(Machine, "OK", 0), idle)

NextThreads == \E t \in Threads :
    \/ Enter(t)
    \/ Finish(t)
    \/ WriteEnter(t)
    \/ WriteStep(t)
    \/ ExecvEnter(t)
    \/ ExecvExit(t)
SpecThreads == InitThreads /\ [][NextThreads]_vars

(***************************************************************************)
(* The classification of paths.                                            *)
(***************************************************************************)
\* the absolute paths that xipfs_file_path_check accepts
ValidPaths ==
    {p \in UNION {[1..n -> {Alphabet[k] : k \in 1..Len(Alphabet)}] :
                     n \in 1..(XIPFS_PATH_MAX - 1)} : p[1] = "/"}

PathInfo(p) == xipfs_path_new(Machine, p).x.info

\* C11: on a well-formed chain, xipfs_path_new succeeds on every valid
\* absolute path and classifies it as creatable, existing file, existing
\* empty directory, existing non-empty directory, blocked by a component
\* that is not a directory or parent missing -- never undefined -- and the
\* witness record is not NULL when the path exists or is blocked.
C11_PathClassified ==
    C1_ChainWellFormed =>
        \A p \in ValidPaths :
            LET r == xipfs_path_new(Machine, p)
            IN  /\ r.ret = 0
                /\ r.x.info \in {XIPFS_PATH_CREATABLE, XIPFS_PATH_EXISTS_AS_FILE,
                                 XIPFS_PATH_EXISTS_AS_EMPTY_DIR,
                                 XIPFS_PATH_EXISTS_AS_NONEMPTY_DIR,
                                 XIPFS_PATH_INVALID_BECAUSE_NOT_DIRS,
                                 XIPFS_PATH_INVALID_BECAUSE_NOT_FOUND}
                /\ r.x.info \in {XIPFS_PATH_EXISTS_AS_FILE,
                                 XIPFS_PATH_EXISTS_AS_EMPTY_DIR,
                                 XIPFS_PATH_EXISTS_AS_NONEMPTY_DIR,
                                 XIPFS_PATH_INVALID_BECAUSE_NOT_DIRS}
                      => r.x.witness # NULL

\* a file, a directory and a file below it are on the flash: paths of five
\* of the classes exist at once
C11_Witness ==
    /\ C1_ChainWellFormed
    /\ Len(Chain(Machine)) >= 2
    /\ Cardinality({PathInfo(p) : p \in ValidPaths}) >= 5

(***************************************************************************)
(* Directories kept when they become empty.                                *)
(***************************************************************************)
\* the paths of the records on the flash
RecordPaths == {PathDec(Field(Machine, Chain(Machine)[k], off_path)) :
                   k \in 1..Len(Chain(Machine))}

\* the directory of the path of the last call, with its trailing slash
LastDir == xipfs_path_dirname(last.path, LastSlash(last.path))

\* the directory D without its trailing slash
Unslashed(D) == SubSeq(D, 1, Len(D) - 1)

\* C12: when unlink or rmdir has removed the last record below a directory D
\* other than the root, the record D/ of the empty directory is on the flash:
\* D classifies as an existing empty directory, stat and opendir on D succeed
\* and rmdir(D) succeeds, whatever the records outside D are.
C12_EmptyDirKept ==
    (/\ last.op \in {"unlink", "rmdir"}
     /\ last.rc = "OK"
     /\ LastDir # <<"/">>
     /\ \A p \in RecordPaths : strncmp_eq(p, LastDir, Len(LastDir)) => p = LastDir)
    => /\ PathInfo(Unslashed(LastDir)) = XIPFS_PATH_EXISTS_AS_EMPTY_DIR
       /\ xipfs_stat(Machine, Unslashed(LastDir)).rc = "OK"
       /\ \E descp \in DirDescs :
             xipfs_opendir([Machine EXCEPT !.open_desc = open_desc_init], descp,
                           Unslashed(LastDir)).rc = "OK"
       /\ xipfs_rmdir(Machine, Unslashed(LastDir)).rc = "OK"

(***************************************************************************)
(* Directory listings and the renaming of directories.                     *)
(***************************************************************************)
\* the names that successive calls of xipfs_readdir on descp return, until
\* a call does not return 1; at most n calls
RECURSIVE ReaddirAll(_, _, _)
ReaddirAll(m, descp, n) ==
    IF n = 0 THEN [names |-> <<>>, rc |-> "OK", ret |-> 1]
    ELSE LET r == xipfs_readdir([m EXCEPT !.data = <<>>], descp)
         IN  IF r.ret # 1 THEN [names |-> <<>>, rc |-> r.rc, ret |-> r.ret]
             ELSE LET rest == ReaddirAll(r, descp, n - 1)
                  IN  [rest EXCEPT !.names = <<r.data>> \o @]

\* the listing of directory dirname through a descriptor of an empty table
Listing(m, dirname) ==
    LET descp == CHOOSE d \in DirDescs : TRUE
        o     == xipfs_opendir([m EXCEPT !.open_desc = open_desc_init], descp, dirname)
    IN  IF o.rc # "OK" THEN [names |-> <<>>, rc |-> o.rc, ret |-> o.ret]
        ELSE ReaddirAll(o, descp, MountPages + 1)

Names(l) == {l.names[k] : k \in 1..Len(l.names)}

\* the cells of the record at filp other than its path
RecordRest(m, filp) ==
    [a \in (filp..(filp + Reserved(m, filp) - 1)) \ {filp + off_path} |-> Peek(m.nvm, a)]

\* C13: renaming a non-empty directory to a creatable path outside it
\* succeeds; every record below from/ gets the path to/ followed by the same
\* suffix, no other cell of the flash changes, from is not found afterwards
\* and the listing of to is the listing from had -- also when to is longer
\* than from.
C13_RenameDirectory ==
    \A from_path \in RenameFroms, to_path \in RenameTos :
        LET pre   == Machine
            r     == xipfs_rename(pre, from_path, to_path)
            fromS == Append(from_path, "/")
            toS   == Append(to_path, "/")
        IN  (/\ C1_ChainWellFormed
             /\ PathInfo(from_path) = XIPFS_PATH_EXISTS_AS_NONEMPTY_DIR
             /\ PathInfo(to_path) = XIPFS_PATH_CREATABLE
             /\ ~strncmp_eq(toS, fromS, Len(fromS)))
            => /\ r.rc = "OK"
               /\ Chain(r) = Chain(pre)
               /\ \A k \in 1..Len(Chain(pre)) :
                     LET filp == Chain(pre)[k]
                         old  == PathDec(Field(pre, filp, off_path))
                     IN  /\ RecordRest(r, filp) = RecordRest(pre, filp)
                         /\ PathDec(Field(r, filp, off_path)) =
                               IF strncmp_eq(old, fromS, Len(fromS))
                               THEN toS \o SubSeq(old, Len(fromS) + 1, Len(old))
                               ELSE old
               /\ xipfs_stat(r, from_path).rc = "ENOENT"
               /\ Listing(r, to_path).rc = "OK"
               /\ Names(Listing(r, to_path)) = Names(Listing(pre, from_path))

(***************************************************************************)
(* The creation of directories.                                            *)
(***************************************************************************)
\* the records on the flash of m, as path and reserved size
Records(m) == {[path |-> PathDec(Field(m, Chain(m)[k], off_path)),
                reserved |-> Reserved(m, Chain(m)[k])] : k \in 1..Len(Chain(m))}

\* the empty-directory records of directory D, other than the root, on the
\* flash of m
Markers(m, D) == {rec \in Records(m) : rec.path = D /\ D # <<"/">>}

\* C14: with room on the mount point, mkdir on a creatable path creates one
\* record, whose path is the path with a trailing slash and which reserves
\* one flash page; the empty-directory record of the parent, if there is one,
\* is removed; no other record is created or removed.
C14_MkdirOneRecord ==
    \A path \in TreePaths :
        LET pre    == Machine
            r      == xipfs_mkdir(pre, path)
            parent == xipfs_path_dirname(path, LastSlash(path))
        IN  (/\ C1_ChainWellFormed
             /\ PathInfo(path) = XIPFS_PATH_CREATABLE
             /\ Len(path) < XIPFS_PATH_MAX - 1
             /\ xipfs_fs_free_pages(pre).ret >= 2)
            => /\ r.rc = "OK"
               /\ Records(r) = (Records(pre) \ Markers(pre, parent))
                                  \cup {[path |-> Append(path, "/"),
                                         reserved |-> XIPFS_NVM_PAGE_SIZE]}
               /\ Len(Chain(r)) = Len(Chain(pre)) + 1 - Cardinality(Markers(pre, parent))

(***************************************************************************)
(* The enumeration of a directory.                                         *)
(***************************************************************************)
\* the names of the immediate children of directory D, given with its
\* trailing slash: files by their name, directories by their name and a '/'
Children(m, D) ==
    {xipfs_path_basename(rec.path, Len(D) - 1)
        \o (IF Len(rec.path) > Len(D) + Len(xipfs_path_basename(rec.path, Len(D) - 1))
            THEN <<"/">> ELSE <<>>) :
        rec \in {q \in Records(m) : strncmp_eq(q.path, D, Len(D)) /\ Len(q.path) > Len(D)}}

\* the entries of a listing that carry a name
Named(l) == SelectSeq(l.names, LAMBDA name : name # <<>>)

\* C15: the successive calls of readdir on a descriptor that opendir(D)
\* returned give each immediate child of D once -- a directory once, with a
\* trailing slash, however many records lie below it -- each returning 1,
\* and then return 0.  (The entry without a name that the record of an
\* empty directory gives is not counted.)
C15_ReaddirOnce ==
    \A dirname \in TreeDirs :
        LET l == Listing(Machine, dirname)
            D == IF dirname = <<"/">> THEN dirname ELSE Append(dirname, "/")
        IN  (C1_ChainWellFormed /\ l.rc = "OK")
            => /\ l.ret = 0
               /\ {Named(l)[k] : k \in 1..Len(Named(l))} = Children(Machine, D)
               /\ Len(Named(l)) = Cardinality(Children(Machine, D))

(***************************************************************************)
(* Formatting and unmounting.                                              *)
(***************************************************************************)
\* C16: after format or umount returned 0 no descriptor opened on the mount
\* point is tracked any more, whatever its state, and after format every
\* page of the mount point is erased and free.
C16_NothingTracked ==
    (last.op \in {"format", "umount"} /\ last.rc = "OK")
    => /\ \A i \in 1..XIPFS_MAX_OPEN_DESC : open_desc[i].type = DESC_FREE
       /\ last.op = "format"
             => /\ \A a \in MountCells : nvm[a] = XIPFS_FLASH_ERASE_STATE
                /\ xipfs_fs_free_pages(Machine).ret = mp_page_num

(***************************************************************************)
(* Mounting.                                                               *)
(***************************************************************************)
\* a cell after the reserved span of the last record, or any cell of an
\* empty mount point, is not erased
DirtyPastTail(m) ==
    LET from == IF Chain(m) = <<>> THEN mp_page_addr
                ELSE ChainTail(m) + Reserved(m, ChainTail(m))
    IN  \E a \in from..(mp_end - 1) : Peek(m.nvm, a) # XIPFS_FLASH_ERASE_STATE

\* C17: xipfs_mount returns EIO whenever the walk to the last record reports
\* an error or a cell between the end of the last record and the end of the
\* mount point is not erased; it never changes the flash, the page buffer or
\* the descriptors.
C17_MountChecks ==
    LET r == xipfs_mount(Machine)
    IN  /\ (~WalkClean(Machine) \/ DirtyPastTail(Machine)) => r.rc = "EIO"
        /\ r.nvm = nvm /\ r.buf = xipfs_buf
        /\ r.open_desc = open_desc /\ r.fdesc = file_desc /\ r.ddesc = dir_desc

\* mount was called on a flash whose chain is clean but whose cells after
\* the last record are not all erased, and returned EIO
C17_Witness ==
    /\ last.op = "mount" /\ last.rc = "EIO"
    /\ WalkClean(Machine) /\ Chain(Machine) # <<>>
    /\ DirtyPastTail(Machine)

(***************************************************************************)
(* The order of the steps of a removal, with and without a flash fault.    *)
(***************************************************************************)
\* the driver calls that can remove a record
RemovingCalls ==
    {[op |-> o, p |-> p, q |-> <<>>] :
        o \in {"unlink", "rmdir", "mkdir", "new_file", "open"}, p \in TreePaths}
        \cup {[op |-> "rename", p |-> p, q |-> q] : p \in TreePaths, q \in TreePaths}

\* the result of call c made on m
Apply(m, c) ==
    CASE c.op = "unlink" -> xipfs_unlink(m, c.p)
      [] c.op = "rmdir" -> xipfs_rmdir(m, c.p)
      [] c.op = "mkdir" -> xipfs_mkdir(m, c.p)
      [] c.op = "new_file" -> xipfs_new_file(m, c.p, 1, 0)
      [] c.op = "open" -> xipfs_open(m, CHOOSE d \in FileDescs : TRUE, c.p,
                                     {"O_WRONLY", "O_CREAT"})
      [] c.op = "rename" -> xipfs_rename(m, c.p, c.q)

\* the machine on which the flash step number k of the next call fails
\* (k = 0 is the first), and the number of flash steps of call c on m
ManySteps == 1000
FaultAt(m, k) == [m EXCEPT !.fuel = k]
FlashSteps(m, c) == ManySteps - Apply(FaultAt(m, ManySteps), c).fuel

\* xipfs_fs_remove is called in the call with result r, and fails in it
Removes(r) == \E j \in 1..Len(r.log) : r.log[j].ev = "xipfs_fs_remove"
RemoveFails(r) == \E j \in 1..Len(r.log) : r.log[j].ev = "return" /\ r.log[j].b # 0

\* in the calls made by the driver call with result r, started on pre: each
\* xipfs_fs_remove directly follows a successful xipfs_buffer_flush; when it
\* succeeds the next call is xipfs_desc_update with the address removed and
\* the reserved size read before the erase; when it fails xipfs_desc_update
\* is not called and the descriptors are as before the call
RemovalOrdered(pre, r) ==
    \A k \in 1..Len(r.log) :
        r.log[k].ev = "xipfs_fs_remove"
        => /\ k > 1
           /\ r.log[k - 1].ev = "xipfs_buffer_flush" /\ r.log[k - 1].a = 0
           /\ k < Len(r.log)
           /\ r.log[k + 1].ev = "return" /\ r.log[k + 1].a = r.log[k].a
           /\ r.log[k + 1].b = 0
                 => /\ k + 2 <= Len(r.log)
                    /\ r.log[k + 2] = [ev |-> "xipfs_desc_update", a |-> r.log[k].a,
                                       b |-> r.log[k].b]
           /\ r.log[k + 1].b # 0
                 => /\ \A j \in 1..Len(r.log) : r.log[j].ev # "xipfs_desc_update"
                    /\ r.open_desc = pre.open_desc
                    /\ r.fdesc = pre.fdesc
                    /\ r.ddesc = pre.ddesc

\* C18: in every driver call that removes a record the page buffer is
\* flushed before xipfs_fs_remove starts, xipfs_desc_update is called with
\* the address of the removed record and the reserved size read before the
\* erase, after the removal succeeded and before any other call of the
\* allocator; when the removal fails the descriptor table is left untouched.
C18_RemovalOrder ==
    \A c \in RemovingCalls :
        Removes(Apply(Machine, c))
        => /\ RemovalOrdered(Machine, Apply(Machine, c))
           /\ \A k \in 0..(FlashSteps(Machine, c) - 1) :
                 RemovalOrdered(FaultAt(Machine, k), Apply(FaultAt(Machine, k), c))

\* a mkdir has removed the empty-directory record of the parent, and a
\* removal can fail on a flash fault in the state reached
C18_Witness ==
    /\ last.op = "mkdir" /\ last.rc = "OK"
    /\ last.removed # <<>>
    /\ \E c \in RemovingCalls :
          /\ Removes(Apply(Machine, c))
          /\ \E k \in 0..(FlashSteps(Machine, c) - 1) :
                RemoveFails(Apply(FaultAt(Machine, k), c))

(***************************************************************************)
(* Calls that fail on the path or on the state.                            *)
(***************************************************************************)
\* the errors on the path, on the state of the file system and on a full
\* table of descriptors
StateErrors == {"ENOENT", "EEXIST", "EISDIR", "ENOTDIR", "ENOTEMPTY", "ENAMETOOLONG",
                "EINVAL", "EACCES", "EDQUOT", "ENFILE"}

\* the results of open, new_file, mkdir, rmdir, unlink, rename and stat on m
StateCalls(m) ==
    {Apply(m, c) : c \in RemovingCalls}
        \cup {xipfs_new_file(m, p, MountPages * XIPFS_NVM_PAGE_SIZE, 0) : p \in TreePaths}
        \cup {xipfs_open(m, d, p, {}) : d \in FileDescs, p \in TreePaths}
        \cup {xipfs_stat(m, p) : p \in TreePaths}

\* C19: when open, new_file, mkdir, rmdir, unlink, rename or stat returns an
\* error on the path, on the state or on the descriptor table, the flash is
\* cell for cell what it was before the call.
C19_ErrorKeepsFlash ==
    \A r \in StateCalls(Machine) :
        r.rc \in StateErrors => r.nvm = nvm

(***************************************************************************)
(* Flash faults during a removal.                                          *)
(***************************************************************************)
\* the walk from the head of the flash of m ends without error and yields
\* records that are aligned, inside the mount point and adjacent
WalkYieldsRecords(m) ==
    /\ WalkClean(m)
    /\ \A k \in 1..Len(Chain(m)) :
          /\ xipfs_flash_page_aligned(Chain(m)[k])
          /\ InMount(Chain(m)[k])
          /\ Reserved(m, Chain(m)[k]) > 0
          /\ Chain(m)[k] + Reserved(m, Chain(m)[k]) <= mp_end
          /\ \/ Field(m, Chain(m)[k], off_next) = Chain(m)[k] + Reserved(m, Chain(m)[k])
             \/ SelfRef(m, Chain(m)[k]) /\ k = Len(Chain(m))
          /\ xipfs_file_path_check(m, PathDec(Field(m, Chain(m)[k], off_path))).ret = 0

\* C20: when a flash erase or program step fails inside xipfs_fs_remove, the
\* driver call returns EIO and the walk from the head of the flash left
\* behind ends without a layout error and yields well-formed records.
C20_FaultLeavesChain ==
    \A c \in RemovingCalls :
        (/\ C1_ChainWellFormed
         /\ Removes(Apply(Machine, c))
         /\ ~RemoveFails(Apply(Machine, c)))
        => \A k \in 0..(FlashSteps(Machine, c) - 1) :
              LET r == Apply(FaultAt(Machine, k), c)
              IN  RemoveFails(r) => r.rc = "EIO" /\ WalkYieldsRecords(r)


(***************************************************************************)
(* The locks of the mount point.                                           *)
(***************************************************************************)
MutatingOps == {"new_file", "open", "unlink", "format", "write"}
InCall(t) == thread[t].op \in MutatingOps

\* C21: a thread that is inside a mutating driver call holds the operations
\* mutex of the mount point, so that two threads are never inside mutating
\* calls at the same time
C21_CallsSerialized ==
    /\ \A t \in Threads : InCall(t) => mutex = t
    /\ \A t, u \in Threads : InCall(t) /\ InCall(u) => t = u

\* C22: while a thread executes a record in place it holds the execution
\* mutex, and the record is still on the flash at the address at which the
\* execution entered it
C22_ExecutionProtected ==
    \A t \in Threads :
        thread[t].op = "execv"
        => /\ execution_mutex = t
           /\ xipfs_file_filp_check(Machine, thread[t].filp).ret = 0
           /\ PathDec(Field(Machine, thread[t].filp, off_path)) = ThreadPath
           /\ Field(Machine, thread[t].filp, off_exec) = 1

(***************************************************************************)
(* The free pages reported by xipfs_statvfs.                               *)
(***************************************************************************)
\* the pages reserved by the records of the chain
RECURSIVE ReservedPages(_, _)
ReservedPages(m, chain) ==
    IF chain = <<>> THEN 0
    ELSE Field(m, Head(chain), off_reserved) \div XIPFS_NVM_PAGE_SIZE
         + ReservedPages(m, Tail(chain))

SeekOffsets == {0 - 1, 0, 1, 2, XIPFS_NVM_PAGE_SIZE, XIPFS_NVM_PAGE_SIZE + 2}
Whences == {"SEEK_SET", "SEEK_CUR", "SEEK_END"}

\* files are opened, written and synchronised, and the position is moved
Seek == \E descp \in FileDescs, off \in SeekOffsets, whence \in Whences :
    Commit("lseek", descp, <<>>, xipfs_lseek(Machine, descp, off, whence))
NextSeek == Open \/ Write \/ Fsync \/ Seek
SpecSeek == Init /\ [][NextSeek]_vars

\* the descriptors that are tracked and designate a valid record whose size
\* can be read
Seekable(m) ==
    {d \in FileDescs :
        /\ xipfs_file_desc_tracked(m, d).rc = "OK"
        /\ m.fdesc[d].filp # xipfs_infos_file
        /\ xipfs_file_get_size(m, m.fdesc[d].filp).ret >= 0}

\* the position asked for
NewPos(pos, size, off, whence) ==
    CASE whence = "SEEK_SET" -> off
      [] whence = "SEEK_CUR" -> pos + off
      [] whence = "SEEK_END" -> (IF pos >= size THEN pos ELSE size) + off

\* C24: xipfs_lseek moves the position to off, pos + off or
\* max(pos, size) + off; a result below 0 or above reserved - header size is
\* refused with EINVAL and position and recorded size stay as they were; a
\* move backwards from a position beyond the recorded size records that
\* position as the size before it moves
C24_LseekPositions ==
    \A d \in Seekable(Machine), off \in SeekOffsets, whence \in Whences :
        LET filp == file_desc[d].filp
            pos  == file_desc[d].pos
            size == xipfs_file_get_size(Machine, filp).ret
            new  == NewPos(pos, size, off, whence)
            r    == xipfs_lseek(Machine, d, off, whence)
            after == xipfs_file_get_size(r, filp).ret
        IN  IF new < 0 \/ new > Reserved(Machine, filp) - sizeof_xipfs_file_t
            THEN r.rc = "EINVAL" /\ r.fdesc = file_desc /\ after = size
                 /\ r.nvm = nvm
            ELSE /\ r.rc = "OK" /\ r.ret = new /\ r.fdesc[d].pos = new
                 /\ r.fdesc[d].filp = filp
                 /\ after = (IF pos > size /\ new < pos THEN pos ELSE size)

\* a file was opened and written, and a backward xipfs_lseek from beyond the
\* recorded size has recorded the old position as the size
C24_Witness ==
    /\ last.op = "lseek" /\ last.rc = "OK"
    /\ nops = 3
    /\ nvm[file_desc[last.desc].filp + off_buf] # XIPFS_FLASH_ERASE_STATE
    /\ last.desc \in Seekable(Machine)
    /\ file_desc[last.desc].pos = 0
    /\ xipfs_file_get_size(Machine, file_desc[last.desc].filp).ret > 0

(***************************************************************************)
(* The page buffer changes page.                                           *)
(***************************************************************************)
\* a buffered write (w) of the value 1, or a buffered read, at ptr
Access(m, ptr, w) ==
    IF w THEN xipfs_buffer_write_8(m, ptr, 1) ELSE xipfs_buffer_read_8(m, ptr)

\* the flash with the cells of page replaced by the image img
WithPage(n, page, img) ==
    [a \in DOMAIN n |->
        IF a \in PageCells(page) THEN img[a - xipfs_nvm_addr(page) + 1] ELSE n[a]]

ErasedImage == [i \in 1..XIPFS_NVM_PAGE_SIZE |-> XIPFS_FLASH_ERASE_STATE]

\* the RAM copy of the loaded page differs from the flash
Dirty == xipfs_buf.state = XIPFS_BUFFER_OK
         /\ \E i \in 1..XIPFS_NVM_PAGE_SIZE :
                xipfs_buf.buf[i] # Peek(nvm, xipfs_buf.page_addr + i - 1)

\* C25: a buffered read or write at an address of a page other than the
\* loaded one first flushes the loaded page: no flash step when the RAM copy
\* equals the flash; otherwise the page is erased and then programmed with
\* the RAM copy (a failed erase ends the access before anything is
\* programmed, a failed program leaves the page erased).  Only then is the
\* new page loaded, so the loaded page is the only page whose RAM copy can
\* differ from the flash, and what it held is on the flash
C25_FlushBeforeLoad ==
    \A ptr \in MountCells, w \in BOOLEAN :
        LET old   == xipfs_buf
            num   == xipfs_nvm_page(ptr)
            r     == Access(Machine, ptr, w)
            steps == ManySteps - Access(FaultAt(Machine, ManySteps), ptr, w).fuel
            erase == IF xipfs_flash_is_erased_page(nvm, old.page_num) THEN 0 ELSE 1
            f0    == Access(FaultAt(Machine, 0), ptr, w)
            fp    == Access(FaultAt(Machine, erase), ptr, w)
        IN  (old.state = XIPFS_BUFFER_OK /\ old.page_num # num)
            => /\ r.ret = 0
               /\ steps = (IF Dirty THEN erase + 1 ELSE 0)
               /\ r.nvm = WithPage(nvm, old.page_num, old.buf)
               /\ Dirty /\ erase = 1 => f0.ret = 0 - 1 /\ f0.nvm = nvm /\ f0.buf = old
               /\ Dirty => /\ fp.nvm = WithPage(nvm, old.page_num, ErasedImage)
                           /\ fp.ret = (IF old.buf = ErasedImage THEN 0 ELSE 0 - 1)
               /\ r.buf.state = XIPFS_BUFFER_OK
               /\ r.buf.page_num = num
               /\ r.buf.page_addr = xipfs_nvm_addr(num)
               /\ \A i \in 1..XIPFS_NVM_PAGE_SIZE :
                     r.buf.buf[i] = IF w /\ i = (ptr % XIPFS_NVM_PAGE_SIZE) + 1 THEN 1
                                    ELSE r.nvm[xipfs_nvm_addr(num) + i - 1]

\* a write of two bytes went over a page boundary: the first byte was
\* programmed when the buffer moved on, the second is in the buffer
C25_Witness ==
    /\ last.op = "write" /\ last.rc = "OK" /\ last.ret = 2
    /\ Dirty
    /\ \E d \in FileDescs :
          /\ d = last.desc
          /\ xipfs_nvm_page(file_desc[d].filp + off_buf) # xipfs_buf.page_num
          /\ nvm[file_desc[d].filp + off_buf] # XIPFS_FLASH_ERASE_STATE

\* C26: when the erase or the program step of xipfs_buffer_flush fails, the
\* call returns a failure, an error code is recorded in xipfs_errno and the
\* buffer is left empty
C26_FailedFlushEmptiesBuffer ==
    \A k \in 0..1 :
        LET r == xipfs_buffer_flush([FaultAt(Machine, k) EXCEPT !.errno = "XIPFS_OK"])
        IN  (Dirty /\ r.fuel < 0 /\ r.nvm # WithPage(nvm, xipfs_buf.page_num, xipfs_buf.buf))
            => /\ r.ret < 0
               /\ r.errno # "XIPFS_OK"
               /\ r.buf.state = XIPFS_BUFFER_KO

(***************************************************************************)
(* The validation of a record address.                                     *)
(***************************************************************************)
\* files are written whose contents hold the image of a record header
ImageSources ==
    {<<1, 1>> \o NewHeader(<<"/", "a">>, XIPFS_NVM_PAGE_SIZE, a, 0) : a \in MountCells}
WriteImage == \E descp \in FileDescs, src \in ImageSources :
    Commit("write", descp, <<>>, xipfs_write(Machine, descp, src))
NextCheck == NewFile \/ Open \/ WriteImage \/ Fsync \/ Close
SpecCheck == Init /\ [][NextCheck]_vars

\* the addresses given to the check: the flash and one page beyond it
FilpCandidates == 0..(xipfs_flash_end_addr + XIPFS_NVM_PAGE_SIZE - 1)

\* what the validation is to accept
ValidRecordAt(m, filp) ==
    LET next == Field(m, filp, off_next)
    IN  /\ filp # NULL
        /\ xipfs_flash_page_aligned(filp)
        /\ xipfs_flash_in(filp)
        /\ next # NULL
        /\ next # filp => /\ xipfs_flash_page_aligned(next)
                          /\ xipfs_flash_in(next)
                          /\ next > filp
                          /\ next = (filp + Field(m, filp, off_reserved)) % AddrSpace
        /\ xipfs_file_path_check(m, PathDec(Field(m, filp, off_path))).ret = 0
        /\ Field(m, filp, off_exec) \in {0, 1}

\* C27: xipfs_file_filp_check fails for an address that is null, not
\* aligned on a page or outside the flash, for a null next, for a next other
\* than the record that is misaligned, outside the flash, not above the
\* record or not at address + reserved, for an invalid path and for an exec
\* value other than 0 and 1, and succeeds in every other case
C27_FilpCheckDecides ==
    \A filp \in FilpCandidates :
        (xipfs_file_filp_check(Machine, filp).ret = 0) <=> ValidRecordAt(Machine, filp)

(***************************************************************************)
(* The slots of the size list.                                             *)
(***************************************************************************)
\* C28: after the sizes of a sequence shorter than the size list have been
\* set on a record just created, the k-th size given is in slot k - 1 of the
\* list and the slots after them are erased
C28_SlotsFilledInOrder ==
    (last.op = "set_sizes" /\ last.ret = 0 /\ last.rc = "OK" /\ Chain(Machine) # <<>>)
    => LET filp  == ChainTail(Machine)
           given == last.data[1]
       IN  \A k \in 1..XIPFS_FILESIZE_SLOT_MAX :
              Field(Machine, filp, off_size + k - 1)
                  = IF k <= Len(given) THEN given[k] ELSE XIPFS_FLASH_ERASE_STATE

(***************************************************************************)
(* The size reserved for a new record, over the whole range of size_t.     *)
(***************************************************************************)
SizeRange == 0..(AddrSpace - 1)

\* records are created with any size, and removed
NewFileSized == \E path \in Paths, size \in SizeRange :
    Commit("new_file", 0, path, xipfs_new_file(Machine, path, size, 0))
NextReserve == NewFileSized \/ Unlink
SpecReserve == Init /\ [][NextReserve]_vars

\* the smallest positive multiple of the page size that holds the header
\* and min_size bytes
RoundedSize(min_size) ==
    IF min_size = 0 THEN XIPFS_NVM_PAGE_SIZE
    ELSE XIPFS_NVM_PAGE_SIZE
         * ((min_size + sizeof_xipfs_file_t + XIPFS_NVM_PAGE_SIZE - 1)
                \div XIPFS_NVM_PAGE_SIZE)

\* C29: on a well-formed chain that is not full, xipfs_fs_new_file with any
\* min_size of the range of size_t reserves the smallest positive multiple
\* of the page size that holds the header and min_size bytes, so that the
\* record has room for min_size bytes, and fails with XIPFS_ENOSPACE when
\* that is more than the free space
C29_ReservedHoldsSize ==
    (C1_ChainWellFormed /\ ~Full(Machine)) =>
        \A path \in Paths, min_size \in SizeRange :
            LET res == xipfs_fs_new_file(Machine, path, min_size, 0)
                at  == AppendAddr(Machine)
            IN  IF RoundedSize(min_size) \div XIPFS_NVM_PAGE_SIZE > FreeBySpan(Machine)
                THEN res.ret = NULL /\ res.errno = "XIPFS_ENOSPACE"
                ELSE /\ res.ret = at
                     /\ Reserved(res, at) = RoundedSize(min_size)
                     /\ Reserved(res, at) - sizeof_xipfs_file_t >= min_size

(***************************************************************************)
(* The table of tracked descriptors.                                       *)
(***************************************************************************)
\* files and directories are opened and closed, records removed, and the
\* mount point formatted and unmounted
NextDesc == Open \/ Close \/ Opendir \/ Closedir \/ Unlink \/ Format \/ Umount
SpecDesc == Init /\ [][NextDesc]_vars

Slots == 1..XIPFS_MAX_OPEN_DESC
SlotsOf(t, descp) == {i \in Slots : t[i].addr = descp}
TableFull(t) == \A i \in Slots : t[i].addr # NULL

\* table u is table t with descriptor descp of the given type in one more slot
Gained(t, u, descp, type) ==
    \E i \in Slots :
        /\ t[i] = [type |-> DESC_FREE, addr |-> NULL]
        /\ u = [t EXCEPT ![i] = [type |-> type, addr |-> descp]]

\* C30: no descriptor address is in two slots of the table (a free slot has
\* no address); tracking a tracked descriptor fails with EIO, tracking on a
\* full table fails with ENFILE, untracking or looking up a descriptor
\* tracked as the other kind fails with EIO, all leaving the table as it
\* was; tracking otherwise takes one free slot and untracking frees the slot
C30_TableUnique ==
    /\ \A i, j \in Slots :
          open_desc[i].addr # NULL /\ open_desc[i].addr = open_desc[j].addr => i = j
    /\ \A i \in Slots : open_desc[i].type = DESC_FREE <=> open_desc[i].addr = NULL
    /\ \A descp \in FileDescs \cup DirDescs :
          LET kind  == IF descp \in FileDescs THEN DESC_FILE ELSE DESC_DIR
              other == IF descp \in FileDescs THEN DESC_DIR ELSE DESC_FILE
              t     == xipfs_desc_track_(Machine, descp, kind)
              u     == xipfs_desc_untrack_(Machine, descp, kind)
              uo    == xipfs_desc_untrack_(Machine, descp, other)
              ko    == xipfs_desc_tracked_(Machine, descp, other)
          IN  /\ SlotsOf(open_desc, descp) # {}
                 => /\ t.rc = "EIO" /\ t.open_desc = open_desc
                    /\ uo.rc = "EIO" /\ uo.open_desc = open_desc
                    /\ ko.rc = "EIO" /\ ko.open_desc = open_desc
                    /\ u.rc = "OK" /\ SlotsOf(u.open_desc, descp) = {}
                    /\ Gained(u.open_desc, open_desc, descp, kind)
              /\ SlotsOf(open_desc, descp) = {} /\ TableFull(open_desc)
                 => t.rc = "ENFILE" /\ t.open_desc = open_desc
              /\ SlotsOf(open_desc, descp) = {} /\ ~TableFull(open_desc)
                 => t.rc = "OK" /\ Gained(open_desc, t.open_desc, descp, kind)

\* the table is full and the last call failed for want of a slot
C30_Witness ==
    /\ TableFull(open_desc)
    /\ last.rc = "ENFILE"
    /\ SlotsOf(open_desc, last.desc) = {}

(***************************************************************************)
(* The page buffer as a mirror of the flash.  Calls that only read: a      *)
(* descriptor opened O_RDONLY on an existing file, reads through it, and   *)
(* the removal of files and the format of the mount point, none of which   *)
(* calls xipfs_buffer_write.                                               *)
(***************************************************************************)
OpenRead == \E descp \in FileDescs, path \in Paths :
    Commit("open", descp, path, xipfs_open(Machine, descp, path, {}))

NextRead == OpenRead \/ Read \/ Unlink \/ Format
SpecRead == Init /\ [][NextRead]_vars

\* C31: while the page buffer is loaded, every byte of it that was not
\* written through xipfs_buffer_write since the load equals the flash page
\* it mirrors, so that a flush programs nothing onto a page that
\* xipfs_fs_remove or xipfs_fs_format has erased or rewritten.  (In SpecRead
\* no call writes to the buffer: every byte of a loaded buffer is such a
\* byte.)
C31_BufferMirrorsFlash ==
    LET m == Machine
    IN  m.buf.state = XIPFS_BUFFER_OK =>
          /\ \A i \in 0..(XIPFS_NVM_PAGE_SIZE - 1) :
                m.buf.buf[i + 1] = Peek(m.nvm, m.buf.page_addr + i)
          /\ xipfs_buffer_flush(m).nvm = m.nvm

(***************************************************************************)
(* The names on the flash.                                                 *)
(***************************************************************************)
\* the number of records of the chain of m whose path is p
CountPath(m, p) ==
    Cardinality({k \in 1..Len(Chain(m)) : PathDec(Field(m, Chain(m)[k], off_path)) = p})

\* C32: no two records of the chain have the same path; rename(from, to) on
\* two distinct existing regular files leaves exactly one record with path
\* to and none with path from.
C32_PathsUnique ==
    /\ \A p \in RecordPaths : CountPath(Machine, p) = 1
    /\ \A from_path \in RenameFroms, to_path \in RenameTos :
          LET r == xipfs_rename(Machine, from_path, to_path)
          IN  (/\ PathInfo(from_path) = XIPFS_PATH_EXISTS_AS_FILE
               /\ PathInfo(to_path) = XIPFS_PATH_EXISTS_AS_FILE
               /\ from_path # to_path
               /\ r.rc = "OK")
              => /\ CountPath(r, to_path) = 1
                 /\ CountPath(r, from_path) = 0

\* the records of m whose path extends the path D of a directory, given
\* with its trailing slash
Below(m, D) ==
    {q \in Records(m) : Len(q.path) > Len(D) /\ SubSeq(q.path, 1, Len(D)) = D}

\* C33: an empty-directory record (path ending in '/') never coexists with
\* a record whose path extends its path, and rmdir never succeeds on a
\* directory that still holds a file or a sub-directory.
C33_MarkerMeansEmpty ==
    LET m == Machine
    IN  /\ \A rec \in Records(m) :
              (Len(rec.path) > 1 /\ rec.path[Len(rec.path)] = "/")
                 => Below(m, rec.path) = {}
        /\ \A path \in TreePaths :
              xipfs_rmdir(m, path).rc = "OK" => Below(m, Append(path, "/")) = {}

(***************************************************************************)
(* Names given with a trailing slash.                                      *)
(***************************************************************************)
SlashedPaths == {<<"/", "a", "/">>, <<"/", "a", "b", "/">>}

MkdirSlashed == \E path \in SlashedPaths :
    Commit("mkdir", 0, path, xipfs_mkdir(Machine, path))

RenameToSlashed == \E from_path \in RenameFroms, to_path \in SlashedPaths :
    Commit("rename", 0, <<from_path, to_path>>, xipfs_rename(Machine, from_path, to_path))

NextNames == NewFileTree \/ MkdirTree \/ MkdirSlashed \/ Rename \/ RenameToSlashed
SpecNames == InitTree /\ [][NextNames]_vars

\* a path without its trailing slash, if it has one
Strip(p) == IF Len(p) > 1 /\ p[Len(p)] = "/" THEN Unslashed(p) ELSE p

\* the records of m that make p a directory: their path starts with p
\* followed by '/'
AsDirectory(m, p) ==
    {q \in Records(m) : Len(q.path) > Len(p) /\ SubSeq(q.path, 1, Len(p) + 1) = Append(p, "/")}

\* C34: no name is both a regular file and a directory -- a record of path p
\* not ending in '/' never coexists with a record whose path starts with p
\* followed by '/'; mkdir on a name that exists as a regular file fails with
\* EEXIST or ENOTDIR, and so does the renaming of a directory to such a name,
\* with or without a trailing '/' in the path given.
C34_FileOrDirectory ==
    LET m    == Machine
        dirs == {XIPFS_PATH_EXISTS_AS_EMPTY_DIR, XIPFS_PATH_EXISTS_AS_NONEMPTY_DIR}
        fail == {"EEXIST", "ENOTDIR"}
    IN  /\ \A rec \in Records(m) :
              rec.path[Len(rec.path)] # "/" => AsDirectory(m, rec.path) = {}
        /\ \A path \in TreePaths \cup SlashedPaths :
              PathInfo(Strip(path)) = XIPFS_PATH_EXISTS_AS_FILE
                 => xipfs_mkdir(m, path).rc \in fail
        /\ \A from_path \in TreePaths, to_path \in RenameTos \cup SlashedPaths :
              (/\ PathInfo(from_path) \in dirs
               /\ PathInfo(Strip(to_path)) = XIPFS_PATH_EXISTS_AS_FILE)
                 => xipfs_rename(m, from_path, to_path).rc \in fail

(***************************************************************************)
(* What close leaves on the flash.                                         *)
(***************************************************************************)
\* C35: when a write through a descriptor is followed by a close that
\* returns 0, every byte written is stored in the flash, not only in the
\* page buffer -- also when the write overwrote existing content without
\* extending the file.
C35_CloseStoresWrites ==
    LET m == Machine
    IN  \A descp \in FileDescs, src \in Sources :
          LET d == m.fdesc[descp]
              w == xipfs_write(m, descp, src)
              c == xipfs_close(w, descp)
          IN  (w.rc = "OK" /\ c.rc = "OK")
                 => \A i \in 1..w.ret : Peek(c.nvm, d.filp + off_buf + d.pos + i - 1) = src[i]

(***************************************************************************)
(* The recorded size and the capacity of a record.                         *)
(***************************************************************************)
\* the number of payload bytes that the record filp can hold
Capacity(m, filp) == Reserved(m, filp) - sizeof_xipfs_file_t

\* C36: the current size of every record lies between 0 and its reserved
\* size less the header, whatever positions were given to fsync; a read at
\* a position below the recorded size does not fail with EIO, and a
\* descriptor opened with O_APPEND does not start past the capacity.
C36_SizeWithinCapacity ==
    LET m  == Machine
        ch == Chain(m)
    IN  /\ \A k \in 1..Len(ch) :
              LET size == xipfs_file_get_size(m, ch[k]).ret
              IN  0 <= size /\ size <= Capacity(m, ch[k])
        /\ \A descp \in FileDescs, nbytes \in Counts :
              xipfs_read(m, descp, nbytes).rc # "EIO"
        /\ \A descp \in FileDescs, path \in Paths :
              LET o == xipfs_open(m, descp, path, {"O_RDWR", "O_APPEND"})
              IN  o.rc = "OK" => o.fdesc[descp].pos <= Capacity(o, o.fdesc[descp].filp)

(***************************************************************************)
(* Descriptors opened O_RDONLY: every descriptor of SpecReadOnly is opened *)
(* without O_WRONLY or O_RDWR, and is read, moved, examined and closed.    *)
(***************************************************************************)
NextReadOnly == OpenRead \/ Read \/ Seek \/ Fstat \/ Close
SpecReadOnly == Init /\ [][NextReadOnly]_vars

\* the recorded sizes of the records of the chain, in chain order
RecordedSizes(m) == [k \in 1..Len(Chain(m)) |-> xipfs_file_get_size(m, Chain(m)[k]).ret]

\* the calls made on a descriptor that was opened O_RDONLY
ReadOnlyCalls(m, descp) ==
    {xipfs_read(m, descp, nbytes) : nbytes \in Counts}
       \cup {xipfs_lseek(m, descp, off, whence) : off \in SeekOffsets, whence \in Whences}
       \cup {xipfs_fstat(m, descp), xipfs_close(m, descp)}

\* C37: no read, lseek, fstat or close on a descriptor opened O_RDONLY
\* changes the recorded size of a file or any other byte of the flash of the
\* mount point, after any sequence of such calls.
C37_ReadOnlyKeepsFlash ==
    LET m == Machine
    IN  \A descp \in FileDescs :
          (m.fdesc[descp].flags \cap O_ACCMODE = {})
             => \A r \in ReadOnlyCalls(m, descp) :
                   /\ r.nvm = m.nvm
                   /\ RecordedSizes(r) = RecordedSizes(m)

(***************************************************************************)
(* Mounting again, on a mount point filled from the formatted state.       *)
(***************************************************************************)
SpecRemount == InitTree /\ [][NextMount]_vars

\* C38: xipfs_mount returns 0 on every state reached from the formatted
\* mount point through driver calls that all returned success, a file
\* system whose last record fills the mount point included.
C38_MountSucceeds ==
    nfails = 0 => xipfs_mount(Machine).rc = "OK"

(***************************************************************************)
(* The classification of paths on an empty file system.                    *)
(***************************************************************************)
\* the valid paths, other than the root, without two slashes in a row
NormalPaths ==
    {p \in ValidPaths : Len(p) > 1 /\ \A k \in 1..(Len(p) - 1) : ~(p[k] = "/" /\ p[k + 1] = "/")}

\* C39: on an empty file system a path is classified as creatable exactly
\* when its parent directory is the root, and as parent missing when its
\* parent is a deeper directory, whatever the length of the directory
\* names.
C39_EmptyParentIsRoot ==
    (Chain(Machine) = <<>> /\ WalkClean(Machine)) =>
        \A p \in NormalPaths :
            LET r == xipfs_path_new(Machine, p)
            IN  /\ r.ret = 0
                /\ r.x.info = IF xipfs_path_dirname(p, LastSlash(p)) = <<"/">>
                              THEN XIPFS_PATH_CREATABLE
                              ELSE XIPFS_PATH_INVALID_BECAUSE_NOT_FOUND

(***************************************************************************)
(* The enumeration of an empty directory.                                  *)
(***************************************************************************)
\* C40: the first readdir on a descriptor opened on an empty directory (one
\* that has only its empty-directory record, or the root of an empty file
\* system) returns 0, and no readdir returns 1 with an empty entry name.
C40_EmptyDirectoryEnds ==
    LET m == Machine
    IN  /\ \A descp \in DirDescs :
              LET r == xipfs_readdir([m EXCEPT !.data = <<>>], descp)
              IN  r.ret = 1 => r.data # <<>>
        /\ \A descp \in DirDescs, dirname \in TreeDirs :
              LET D == IF dirname = <<"/">> THEN dirname ELSE Append(dirname, "/")
                  o == xipfs_opendir(m, descp, dirname)
              IN  (o.rc = "OK" /\ Children(m, D) = {})
                     => xipfs_readdir(o, descp).ret = 0


=============================================================================
